---- MODULE Spec2Model ----
(***************************************************************************)
(* Model of the screening engine of stock_screener.py: the per-symbol      *)
(* moving-average trend cache (ma_trend_cache), the trend classifier       *)
(* check_ma_trend, check_vol_price_up, the filter pipeline filter_stocks   *)
(* with analyze_trading_signals, the limit-up scoring of                   *)
(* analyze_limit_up_stocks, the index classification and the sector lists  *)
(* of analyze_market_trend with convert_flow_value, and the tiers of       *)
(* analyze_money_flow, together with the handlers that call them.          *)
(*                                                                         *)
(* Numbers.  pandas columns hold floats; the model holds exact rationals   *)
(* [nan, num, den] (den > 0, reduced), with nan for pandas' NaN.  Every    *)
(* comparison with NaN is false, as in IEEE arithmetic.                    *)
(***************************************************************************)
EXTENDS Integers, Sequences, FiniteSets, TLC

VARIABLES
    ma_trend_cache,   \* self.ma_trend_cache: symbol -> (is_positive, latest bar)
    hist,             \* provider: symbol -> daily history returned by stock_zh_a_hist
    minute,           \* provider: symbol -> today's intraday volumes (stock_zh_a_hist_min_em)
    index,            \* provider: closes of the index returned by stock_zh_index_daily_em
    sectors,          \* provider: the industry boards, their constituents and fund-flow rows
    stock_flow,       \* provider: rows returned by stock_individual_fund_flow_rank
    snapshot,         \* provider: rows returned by stock_zh_a_spot_em
    crit,             \* the filter widgets' values (FilterCriteria)
    pc,               \* position inside refresh_data: "idle" | "refresh_fetch"
    op,               \* the handler (and argument) that ran last
    ret,              \* what that handler returned
    fetches,          \* symbol -> history fetches by check_ma_trend since the last clear
    computes,         \* symbol -> trend computations completed since the last clear
    edits             \* widget values changed by hand since they were last set as a whole

vars == <<ma_trend_cache, hist, minute, index, sectors, stock_flow, snapshot, crit, pc, op, ret, fetches, computes, edits>>

----------------------------------------------------------------------------
(* Bounds of the model *)

\* longest history the trend family holds (the code fetches 60 calendar days)
MaxBars == 33
\* history fetches by check_ma_trend counted per symbol and cycle
MaxFetches == 2
\* longest series handed to check_vol_price_up
MaxVolBars == 4
\* widgets changed by hand after clear_filter_conditions, set_default_conditions
\* or the start
MaxEdits == 2

\* bars of the longest index history
IndexBars == 62

\* stock codes: two main-board codes and one ChiNext code (prefix 300)
Symbols == {"600001", "000002", "300003"}
\* the codes check_ma_trend is called for: show_ma_stocks and show_ma_up_stocks
\* keep main-board rows only
MainSymbols == {"600001", "000002"}

----------------------------------------------------------------------------
(* Rationals with NaN *)

Abs(x) == IF x < 0 THEN -x ELSE x

RECURSIVE Gcd(_, _)
Gcd(a, b) == IF b = 0 THEN a ELSE Gcd(b, a % b)

NaN == [nan |-> TRUE, num |-> 0, den |-> 1]

\* num/den reduced, den > 0
Rat(n, d) ==
    LET g == Gcd(Abs(n), Abs(d))
        s == IF d < 0 THEN -1 ELSE 1
    IN [nan |-> FALSE, num |-> s * (n \div g), den |-> s * (d \div g)]

Num(n) == [nan |-> FALSE, num |-> n, den |-> 1]

IsNaN(a) == a.nan

\* a and b over their least common denominator: the two numerators
OverCommon(a, b) ==
    <<a.num * (b.den \div Gcd(a.den, b.den)), b.num * (a.den \div Gcd(a.den, b.den))>>

RSub(a, b) == IF a.nan \/ b.nan THEN NaN
              ELSE Rat(OverCommon(a, b)[1] - OverCommon(a, b)[2],
                       (a.den \div Gcd(a.den, b.den)) * b.den)

RAdd(a, b) == IF a.nan \/ b.nan THEN NaN
              ELSE Rat(OverCommon(a, b)[1] + OverCommon(a, b)[2],
                       (a.den \div Gcd(a.den, b.den)) * b.den)

RMul(a, b) == IF a.nan \/ b.nan THEN NaN
              ELSE Rat((a.num \div Gcd(Abs(a.num), b.den)) * (b.num \div Gcd(Abs(b.num), a.den)),
                       (a.den \div Gcd(Abs(b.num), a.den)) * (b.den \div Gcd(Abs(a.num), b.den)))

\* a / b; 0/0 is NaN (prices keep low <= close <= high, so x/0 has x = 0)
RDiv(a, b) == IF a.nan \/ b.nan \/ b.num = 0 THEN NaN
              ELSE Rat(a.num * b.den, a.den * b.num)

\* a > b, a >= b, a <= b on floats: false when either side is NaN
RGt(a, b) == ~a.nan /\ ~b.nan /\ OverCommon(a, b)[1] > OverCommon(a, b)[2]
RGe(a, b) == ~a.nan /\ ~b.nan /\ OverCommon(a, b)[1] >= OverCommon(a, b)[2]
RLe(a, b) == RGe(b, a)
RLt(a, b) == RGt(b, a)

----------------------------------------------------------------------------
(* pandas Series operations used by the engine (1-based sequences) *)

\* the sequence f, enumerated once (a function over 1..n is a sequence)
AsSeq(f) == f \o <<>>

RECURSIVE SumInts(_, _, _)
SumInts(xs, lo, hi) == IF lo > hi THEN 0 ELSE xs[hi] + SumInts(xs, lo, hi - 1)

\* mutant of RollingMean: the first full window is still NaN
RollingMeanLate(xs, n) ==
    AsSeq([i \in 1..Len(xs) |-> IF i <= n THEN NaN ELSE Rat(SumInts(xs, i - n + 1, i), n)])

\* Series.rolling(n).mean() of an integer column: NaN until n values are in the window
RollingMean(xs, n) ==
    AsSeq([i \in 1..Len(xs) |-> IF i < n THEN NaN ELSE Rat(SumInts(xs, i - n + 1, i), n)])

\* Series.diff(): first difference, NaN at the first index
Diff(rs) == AsSeq([i \in 1..Len(rs) |-> IF i = 1 THEN NaN ELSE RSub(rs[i], rs[i - 1])])

\* Series.iloc[-k] (k >= 1); the caller guarantees Len(rs) >= k
ILocNeg(rs, k) == rs[Len(rs) - k + 1]

\* Series.iloc[-a:-b] with a > b >= 1: python slicing clips the start at 0
SliceNeg(rs, a, b) ==
    LET start == IF Len(rs) - a + 1 < 1 THEN 1 ELSE Len(rs) - a + 1
        stop  == Len(rs) - b
    IN IF stop < start THEN <<>> ELSE SubSeq(rs, start, stop)

RECURSIVE SumSkipNa(_)
SumSkipNa(rs) ==
    IF rs = <<>> THEN Num(0)
    ELSE IF Head(rs).nan THEN SumSkipNa(Tail(rs))
    ELSE RAdd(Head(rs), SumSkipNa(Tail(rs)))

CountNotNa(rs) == Cardinality({i \in 1..Len(rs) : ~rs[i].nan})

\* Series.mean(): NaN entries are skipped; NaN when nothing is left
MeanSkipNa(rs) ==
    IF CountNotNa(rs) = 0 THEN NaN
    ELSE RMul(SumSkipNa(rs), Rat(1, CountNotNa(rs)))

Closes(h) == AsSeq([i \in 1..Len(h) |-> h[i].close])

----------------------------------------------------------------------------
(* Values returned by handlers *)

\* python None, and a bar wrapped so that both are sequences
None == <<>>
Some(x) == <<x>>

\* the tuple (is_positive, latest) returned by check_ma_trend
Pair(b, latest) == [pos |-> b, latest |-> latest]

EmptyCache == [s \in {} |-> Pair(FALSE, None)]

----------------------------------------------------------------------------
(* check_ma_trend *)

\* lookback_days = 3
lookback_days == 3

\* one moving average "turns up": latest slope > 0 and the mean of the slopes
\* before it inside the lookback window <= 0
\* mutant of SlopeTurnsUp: a flat latest slope passes
SlopeTurnsUpLoose(slope) ==
    /\ RGe(ILocNeg(slope, 1), Num(0))
    /\ RLe(MeanSkipNa(SliceNeg(slope, lookback_days, 1)), Num(0))

SlopeTurnsUp(slope) ==
    /\ RGt(ILocNeg(slope, 1), Num(0))
    /\ RLe(MeanSkipNa(SliceNeg(slope, lookback_days, 1)), Num(0))

is_turning_up(c) ==
    /\ SlopeTurnsUp(Diff(RollingMean(c, 5)))
    /\ SlopeTurnsUp(Diff(RollingMean(c, 10)))
    /\ SlopeTurnsUp(Diff(RollingMean(c, 20)))

is_bullish(c) ==
    LET ma5  == RollingMean(c, 5)
        ma10 == RollingMean(c, 10)
        ma20 == RollingMean(c, 20)
        ma30 == RollingMean(c, 30)
    IN /\ RGt(ILocNeg(ma5, 1), ILocNeg(ma10, 1))
       /\ RGt(ILocNeg(ma10, 1), ILocNeg(ma20, 1))
       /\ RGt(ILocNeg(ma20, 1), ILocNeg(ma30, 1))
       /\ RGt(ILocNeg(Diff(ma5), 1), Num(0))
       /\ RGt(ILocNeg(Diff(ma10), 1), Num(0))
       /\ RGt(ILocNeg(Diff(ma20), 1), Num(0))
       /\ RGt(ILocNeg(Diff(ma30), 1), Num(0))

\* the result computed from a non-empty history h (lines 856-903)
TrendResult(h) ==
    Pair(is_turning_up(Closes(h)) \/ is_bullish(Closes(h)), Some(h[Len(h)]))

\* whether the call finds its symbol in the cache (lines 841-842)
CacheHit(cache, s) == s \in DOMAIN cache

\* the cache after the result of a computation is stored (line 904)
\* mutants of CacheStore: the result is dropped; the dict is rebuilt around the
\* new entry
CacheStoreNothing(cache, s, result) == cache
CacheStoreAlone(cache, s, result) == [x \in {s} |-> result]

CacheStore(cache, s, result) ==
    [x \in DOMAIN cache \cup {s} |-> IF x = s THEN result ELSE cache[x]]

\* what a failed call does: history empty (line 853) or an exception (line 907)
TrendFailure(cache) ==
    [cache |-> cache, ret |-> Pair(FALSE, None), fetched |-> TRUE, computed |-> FALSE]

\* One call check_ma_trend(stock_code) on cache `cache`, when the provider answers
\* the history fetch with `outcome` ("ok": the history h, "raise": an exception).
\* Gives the cache afterwards, the value returned, and whether the call fetched
\* and whether it computed.
\* mutant of check_ma_trend: lines 841-842 are missing, every call fetches
check_ma_trend_unchecked(cache, s, outcome, h) ==
    IF outcome = "raise" \/ h = <<>> THEN TrendFailure(cache)
    ELSE [cache |-> CacheStore(cache, s, TrendResult(h)), ret |-> TrendResult(h),
          fetched |-> TRUE, computed |-> TRUE]

\* mutant of check_ma_trend: a history of fewer than 31 bars is turned away
check_ma_trend_guarded(cache, s, outcome, h) ==
    IF CacheHit(cache, s)
    THEN [cache |-> cache, ret |-> cache[s], fetched |-> FALSE, computed |-> FALSE]
    ELSE IF outcome = "raise" \/ Len(h) < 31 THEN TrendFailure(cache)
    ELSE [cache |-> CacheStore(cache, s, TrendResult(h)), ret |-> TrendResult(h),
          fetched |-> TRUE, computed |-> TRUE]

\* mutant of check_ma_trend: the pair of a failed call is stored like any other
check_ma_trend_failure_stored(cache, s, outcome, h) ==
    IF CacheHit(cache, s)
    THEN [cache |-> cache, ret |-> cache[s], fetched |-> FALSE, computed |-> FALSE]
    ELSE IF outcome = "raise" \/ h = <<>>
    THEN [cache |-> CacheStore(cache, s, Pair(FALSE, None)), ret |-> Pair(FALSE, None),
          fetched |-> TRUE, computed |-> FALSE]
    ELSE [cache |-> CacheStore(cache, s, TrendResult(h)), ret |-> TrendResult(h),
          fetched |-> TRUE, computed |-> TRUE]

check_ma_trend(cache, s, outcome, h) ==
    IF CacheHit(cache, s)
    THEN [cache |-> cache, ret |-> cache[s], fetched |-> FALSE, computed |-> FALSE]
    ELSE IF outcome = "raise" THEN TrendFailure(cache)
    ELSE IF h = <<>> THEN TrendFailure(cache)
    ELSE LET result == TrendResult(h)
         IN [cache |-> CacheStore(cache, s, result), ret |-> result,
             fetched |-> TRUE, computed |-> TRUE]

\* mutant of clear_ma_trend_cache: one entry is popped instead
clear_one_entry(cache) ==
    IF cache = EmptyCache THEN cache
    ELSE [x \in DOMAIN cache \ {CHOOSE s \in DOMAIN cache : TRUE} |-> cache[x]]

\* clear_ma_trend_cache: self.ma_trend_cache.clear()
clear_ma_trend_cache(cache) == EmptyCache

----------------------------------------------------------------------------
(* The market-data provider (akshare): the data it would return now *)

\* one daily bar; age = calendar days before today, pct = 涨跌幅 in tenths of a percent
Bar(age, c, v) == [age |-> age, close |-> c, high |-> c, low |-> c, volume |-> v, pct |-> 0]

\* a history with the closes cs, one session a day, the last one today
SeriesOf(cs) == AsSeq([i \in 1..Len(cs) |-> Bar(Len(cs) - i, cs[i], 1)])

\* closes on a line of slope d, the last three bars moved by e[1], e[2], e[3]
TrendCloses(L, d, e) ==
    AsSeq([i \in 1..L |-> 40 + d * i + (IF i > L - 3 THEN e[i - (L - 3)] ELSE 0)])

\* stock_zh_a_hist(symbol, start_date = today - days, end_date = today): the bars
\* of the window, oldest first (histories are sorted by date)
FetchDaily(h, days) ==
    LET k == Cardinality({i \in 1..Len(h) : h[i].age <= days})
    IN SubSeq(h, Len(h) - k + 1, Len(h))

\* one row of stock_zh_a_spot_em: 最新价, 涨跌幅 and 换手率 (tenths of a percent),
\* 量比 (tenths), 总市值 and 市值 (units of 1e7 yuan), 成交额, 所属行业
Row(code, price, pct, turnover, vr, cap, amount, industry) ==
    [code |-> code, price |-> price, pct |-> pct, turnover |-> turnover,
     volume_ratio |-> vr, total_cap |-> cap, cap |-> cap, amount |-> amount,
     industry |-> industry]

\* code.startswith('300') | '688' | '430' | '689' | '830' | '839' (lines 951-956)
NonMainBoard(code) == code \in {"300003"}

Outcomes == {"ok", "raise"}

----------------------------------------------------------------------------
(* The filter widgets (lines 541-590, 606-704) *)

Widgets(tmin, tmax, pmin, pmax, vmin, vmax, prmin, prmax, cmin, cmax, green) ==
    [turnover_min |-> tmin, turnover_max |-> tmax,
     price_change_min |-> pmin, price_change_max |-> pmax,
     volume_ratio_min |-> vmin, volume_ratio_max |-> vmax,
     price_min |-> prmin, price_max |-> prmax,
     market_cap_min |-> cmin, market_cap_max |-> cmax,
     top_n |-> 0, hot_stocks_n |-> 0, months |-> 0, limit_up_times |-> 0,
     volume_increase |-> FALSE, remove_green |-> green, remove_limit_up |-> FALSE,
     ma_alignment |-> FALSE, macd_golden |-> FALSE, kdj_golden |-> FALSE]

\* the values set up by setup_filter_conditions (a spin box starts at 0)
InitialWidgets == Widgets(0, 100, 30, 100, 10, 0, 1, 5, 50, 300, FALSE)

\* clear_filter_conditions
ClearedWidgets == Widgets(0, 0, -200, 200, 0, 0, 0, 10000, 0, 10000, FALSE)

\* set_default_conditions
DefaultWidgets ==
    [Widgets(30, 100, 30, 100, 10, 100, 1, 5, 50, 300, TRUE)
        EXCEPT !.months = 1, !.limit_up_times = 1]

----------------------------------------------------------------------------
(* check_vol_price_up *)

\* the loop "for i in range(days)" from iteration i on: False at the first pair
\* that is not both price-up and volume-up, True when the loop runs out
RECURSIVE VolPriceLoop(_, _, _)
VolPriceLoop(h, i, days) ==
    IF i >= days THEN TRUE
    ELSE LET today     == h[Len(h) - i]
             yesterday == h[Len(h) - i - 1]
             price_up  == today.close > yesterday.close
             volume_up == today.volume > yesterday.volume
         IN IF ~(price_up /\ volume_up) THEN FALSE
            ELSE VolPriceLoop(h, i + 1, days)

\* mutant of check_vol_price_up: the loop starts one pair late
check_vol_price_up_late(h, days) ==
    IF Len(h) < days + 1 THEN FALSE ELSE VolPriceLoop(h, 1, days)

check_vol_price_up(h, days) ==
    IF Len(h) < days + 1 THEN FALSE ELSE VolPriceLoop(h, 0, days)

----------------------------------------------------------------------------
(* The batch handlers that classify: show_ma_stocks, show_ma_up_stocks *)

\* check_ma_trend on each code in turn; outcome[c] is the provider's answer to the
\* history fetch for c.  rets[i] is the value returned for codes[i].
RECURSIVE ClassifyAll(_, _, _, _)
ClassifyAll(cache, codes, outcome, hs) ==
    IF codes = <<>>
    THEN [cache |-> cache, rets |-> <<>>, fetched |-> {}, computed |-> {}]
    ELSE LET c    == Head(codes)
             r    == check_ma_trend(cache, c, outcome[c], FetchDaily(hs[c], 60))
             rest == ClassifyAll(r.cache, Tail(codes), outcome, hs)
         IN [cache    |-> rest.cache,
             rets     |-> <<r.ret>> \o rest.rets,
             fetched  |-> (IF r.fetched THEN {c} ELSE {}) \cup rest.fetched,
             computed |-> (IF r.computed THEN {c} ELSE {}) \cup rest.computed]

CodesOf(rows) == AsSeq([i \in 1..Len(rows) |-> rows[i].code])

IsMainBoard(row) == ~NonMainBoard(row.code)
IsMainBoardUp(row) == row.pct > 0 /\ ~NonMainBoard(row.code)

\* the codes of rows whose index is in the set idx, in row order
RECURSIVE Pick(_, _, _)
Pick(rows, idx, i) ==
    IF i > Len(rows) THEN <<>>
    ELSE (IF i \in idx THEN <<rows[i].code>> ELSE <<>>) \o Pick(rows, idx, i + 1)

\* show_ma_up_stocks: the codes listed (lines 1043-1049)
MaUpList(rows, rets) == Pick(rows, {i \in 1..Len(rows) : rets[i].pos}, 1)

\* show_ma_stocks: the six lists (lines 967-1003).  outcome5[c] is the provider's
\* answer to the 5-day fetch; an exception there skips the stock.
MaLists(rows, rets, outcome5, hs) ==
    LET bull == {i \in 1..Len(rows) : rets[i].pos /\ outcome5[rows[i].code] = "ok"}
        vol  == {i \in bull : check_vol_price_up(FetchDaily(hs[rows[i].code], 5), 3)}
        up   == {i \in bull : rows[i].pct > 0 /\ rows[i].pct < 95}
        lim  == {i \in bull : rows[i].pct > 0 /\ rows[i].pct >= 95}
        down == {i \in bull : ~(rows[i].pct > 0)}
    IN [ma_up_not_limit     |-> Pick(rows, up, 1),
        ma_up_not_limit_vol |-> Pick(rows, up \cap vol, 1),
        ma_up_limit         |-> Pick(rows, lim, 1),
        ma_up_limit_vol     |-> Pick(rows, lim \cap vol, 1),
        ma_down             |-> Pick(rows, down, 1),
        ma_down_vol         |-> Pick(rows, down \cap vol, 1)]

----------------------------------------------------------------------------
(* Indicators of the technical block of filter_stocks *)

\* pandas' ewm(...).mean() (min_periods 0, ignore_na False) from index i on, with
\* wa the weighted average so far and old_wt its weight: alpha = 2/(span+1) or
\* 1/(1+com); adjust = FALSE restarts the weight at 1 and weighs the new value by
\* alpha, adjust = TRUE lets the weight grow by 1
RECURSIVE EwmFrom(_, _, _, _, _, _)
EwmFrom(xs, i, wa, old_wt, alpha, adjust) ==
    IF i > Len(xs) THEN <<>>
    ELSE LET cur    == xs[i]
             new_wt == IF adjust THEN Num(1) ELSE alpha
             decay  == RMul(old_wt, RSub(Num(1), alpha))
             wa2    == IF wa.nan THEN cur
                       ELSE IF cur.nan THEN wa
                       ELSE RDiv(RAdd(RMul(decay, wa), RMul(new_wt, cur)),
                                 RAdd(decay, new_wt))
             wt2    == IF wa.nan THEN old_wt
                       ELSE IF cur.nan THEN decay
                       ELSE IF adjust THEN RAdd(decay, new_wt) ELSE Num(1)
         IN <<wa2>> \o EwmFrom(xs, i + 1, wa2, wt2, alpha, adjust)

Ewm(xs, alpha, adjust) ==
    IF xs = <<>> THEN <<>>
    ELSE <<xs[1]>> \o EwmFrom(xs, 2, xs[1], Num(1), alpha, adjust)

Nums(xs) == AsSeq([i \in 1..Len(xs) |-> Num(xs[i])])

SeqSub(as, bs) == AsSeq([i \in 1..Len(as) |-> RSub(as[i], bs[i])])

Min(S) == CHOOSE x \in S : \A y \in S : x <= y
Max(S) == CHOOSE x \in S : \A y \in S : x >= y

\* rolling(9, min_periods=9).min() / .max() of an integer column
RollingMin(xs, n) ==
    AsSeq([i \in 1..Len(xs) |->
              IF i < n THEN NaN ELSE Num(Min({xs[j] : j \in (i - n + 1)..i}))])
RollingMax(xs, n) ==
    AsSeq([i \in 1..Len(xs) |->
              IF i < n THEN NaN ELSE Num(Max({xs[j] : j \in (i - n + 1)..i}))])

\* ma5 > ma10 > ma20 on the latest values
MaAligned(ma5, ma10, ma20) == RGt(ma5, ma10) /\ RGt(ma10, ma20)

\* mutant of MaAlignmentFails: an average that is not there yet is not compared
MaAlignmentFailsOnValuesOnly(c) ==
    /\ ~IsNaN(ILocNeg(RollingMean(c, 20), 1))
    /\ ~MaAligned(ILocNeg(RollingMean(c, 5), 1), ILocNeg(RollingMean(c, 10), 1),
                  ILocNeg(RollingMean(c, 20), 1))

\* lines 1125-1130: True when the candidate is dropped by the MA check
MaAlignmentFails(c) ==
    ~MaAligned(ILocNeg(RollingMean(c, 5), 1), ILocNeg(RollingMean(c, 10), 1),
               ILocNeg(RollingMean(c, 20), 1))

\* fast.iloc[-1] > slow.iloc[-1] and fast.iloc[-2] <= slow.iloc[-2]
GoldenCross(fast, slow) ==
    /\ RGt(ILocNeg(fast, 1), ILocNeg(slow, 1))
    /\ RLe(ILocNeg(fast, 2), ILocNeg(slow, 2))

\* macd = ewm(span=12) - ewm(span=26), both adjust=False
MacdLine(c) == SeqSub(Ewm(c, Rat(2, 13), FALSE), Ewm(c, Rat(2, 27), FALSE))

\* the cross of a line over its own ewm(span=9, adjust=False)
CrossesSignal(macd) == GoldenCross(macd, Ewm(macd, Rat(2, 10), FALSE))

\* lines 1141-1148
MacdGoldenFails(c) == ~CrossesSignal(MacdLine(Nums(c)))

Lows(h) == AsSeq([i \in 1..Len(h) |-> h[i].low])
Highs(h) == AsSeq([i \in 1..Len(h) |-> h[i].high])

\* rsv = (close - low_list) / (high_list - low_list) * 100
Rsv(c, low_list, high_list) ==
    AsSeq([i \in 1..Len(c) |->
              RMul(RDiv(RSub(Num(c[i]), low_list[i]), RSub(high_list[i], low_list[i])),
                   Num(100))])

\* the cross of k over d = k.ewm(com=2).mean()
CrossesD(k) == GoldenCross(k, Ewm(k, Rat(1, 3), TRUE))

\* lines 1150-1158
KdjGoldenFails(h) ==
    ~CrossesD(Ewm(Rsv(Closes(h), RollingMin(Lows(h), 9), RollingMax(Highs(h), 9)),
                  Rat(1, 3), TRUE))

\* mutant of TechnicalCheck: a candidate without history is dropped
TechnicalCheckNeedsData(c, h) ==
    IF h = <<>> THEN "drop"
    ELSE IF c.ma_alignment /\ MaAlignmentFails(Closes(h)) THEN "drop"
    ELSE IF c.macd_golden /\ MacdGoldenFails(Closes(h)) THEN "drop"
    ELSE IF c.kdj_golden /\ KdjGoldenFails(h) THEN "drop"
    ELSE "keep"

\* the technical block on one candidate with history h (lines 1131-1160): "keep"
\* or "drop".  On a one-bar history the first comparison of a cross is false
\* (the line equals its average, or is NaN), so `and` never evaluates iloc[-2].
TechnicalCheck(c, h) ==
    IF h = <<>> THEN "keep"
    ELSE IF c.ma_alignment /\ MaAlignmentFails(Closes(h)) THEN "drop"
    ELSE IF c.macd_golden /\ MacdGoldenFails(Closes(h)) THEN "drop"
    ELSE IF c.kdj_golden /\ KdjGoldenFails(h) THEN "drop"
    ELSE "keep"

----------------------------------------------------------------------------
(* filter_stocks *)

\* df[mask]: the rows whose index is in idx, in row order
RECURSIVE RowsAt(_, _, _)
RowsAt(rows, idx, i) ==
    IF i > Len(rows) THEN <<>>
    ELSE (IF i \in idx THEN <<rows[i]>> ELSE <<>>) \o RowsAt(rows, idx, i + 1)

Indices(rows) == 1..Len(rows)

\* lines 1076-1078
TurnoverStage(rows, c) ==
    RowsAt(rows, {i \in Indices(rows) : /\ rows[i].turnover >= c.turnover_min
                                        /\ rows[i].turnover <= c.turnover_max}, 1)

\* lines 1080-1082
PriceChangeStage(rows, c) ==
    RowsAt(rows, {i \in Indices(rows) : /\ rows[i].pct >= c.price_change_min
                                        /\ rows[i].pct <= c.price_change_max}, 1)

\* lines 1084-1087: the upper bound only when volume_ratio_max > 0
VolumeRatioAtLeast(rows, c) ==
    RowsAt(rows, {i \in Indices(rows) : rows[i].volume_ratio >= c.volume_ratio_min}, 1)

VolumeRatioAtMost(rows, c) ==
    IF c.volume_ratio_max > 0
    THEN RowsAt(rows, {i \in Indices(rows) : rows[i].volume_ratio <= c.volume_ratio_max}, 1)
    ELSE rows

VolumeRatioStage(rows, c) == VolumeRatioAtMost(VolumeRatioAtLeast(rows, c), c)

\* mutant of PriceStage: the upper bound only when price_max > 0
PriceStageOpenEnded(rows, c) ==
    RowsAt(rows, {i \in Indices(rows) : /\ rows[i].price >= c.price_min
                                        /\ (c.price_max > 0 => rows[i].price <= c.price_max)}, 1)

\* lines 1089-1091
PriceStage(rows, c) ==
    RowsAt(rows, {i \in Indices(rows) : /\ rows[i].price >= c.price_min
                                        /\ rows[i].price <= c.price_max}, 1)

\* lines 1093-1096: the widgets hold 亿 (1e8 yuan), 总市值 is held in 1e7 yuan
MarketCapStage(rows, c) ==
    LET min_cap == c.market_cap_min * 10
        max_cap == c.market_cap_max * 10
    IN RowsAt(rows, {i \in Indices(rows) : /\ rows[i].total_cap >= min_cap
                                           /\ rows[i].total_cap <= max_cap}, 1)

\* lines 1076-1096
RangeStages(rows, c) ==
    MarketCapStage(PriceStage(VolumeRatioStage(
        PriceChangeStage(TurnoverStage(rows, c), c), c), c), c)

\* lines 1099-1103
RemoveGreen(rows, c) ==
    IF c.remove_green THEN RowsAt(rows, {i \in Indices(rows) : rows[i].pct > 0}, 1)
    ELSE rows

RemoveLimitUp(rows, c) ==
    IF c.remove_limit_up THEN RowsAt(rows, {i \in Indices(rows) : rows[i].pct < 95}, 1)
    ELSE rows

CheckboxStages(rows, c) == RemoveLimitUp(RemoveGreen(rows, c), c)

\* Series.tail(3)
Tail3(xs) == IF Len(xs) <= 3 THEN xs ELSE SubSeq(xs, Len(xs) - 2, Len(xs))

\* lines 1115-1118: the last three intraday volumes strictly increase
VolumeIncreasing(mins) ==
    LET recent_volumes == Tail3(mins)
    IN /\ mins # <<>>
       /\ Len(recent_volumes) = 3
       /\ \A i \in 2..3 : recent_volumes[i] > recent_volumes[i - 1]

\* lines 1105-1119
VolumeIncreaseStage(rows, c, mins) ==
    IF c.volume_increase
    THEN RowsAt(rows, {i \in Indices(rows) : VolumeIncreasing(mins[rows[i].code])}, 1)
    ELSE rows

TechnicalOn(c) == c.ma_alignment \/ c.macd_golden \/ c.kdj_golden

\* the verdict of the technical block on every row
TechnicalVerdicts(rows, c, hs) ==
    AsSeq([i \in Indices(rows) |-> TechnicalCheck(c, FetchDaily(hs[rows[i].code], 60))])

\* lines 1122-1153: technical_stocks holds the candidates that were not dropped
TechnicalStage(rows, verdicts) ==
    RowsAt(rows, {i \in Indices(rows) : verdicts[i] = "keep"}, 1)

\* the rows in the order of DataFrame.nlargest: by key, largest first, equal keys
\* in row order
RECURSIVE SortDesc(_, _)
SortDesc(rows, key) ==
    IF rows = <<>> THEN <<>>
    ELSE LET top   == Max({rows[i][key] : i \in Indices(rows)})
             first == Min({i \in Indices(rows) : rows[i][key] = top})
         IN <<rows[first]>> \o SortDesc(RowsAt(rows, Indices(rows) \ {first}, 1), key)

\* DataFrame.nlargest(n, key)
NLargest(rows, n, key) ==
    LET sorted == SortDesc(rows, key)
    IN IF Len(sorted) <= n THEN sorted ELSE SubSeq(sorted, 1, n)

\* mutant of HotStocksStage: one row too many
HotStocksStageWide(rows, c) ==
    IF c.hot_stocks_n > 0 THEN NLargest(rows, c.hot_stocks_n + 1, "amount") ELSE rows

\* lines 1164-1166
HotStocksStage(rows, c) ==
    IF c.hot_stocks_n > 0 THEN NLargest(rows, c.hot_stocks_n, "amount") ELSE rows

\* lines 1168-1175: the top_n rows by 市值 of every industry
IndustryLeadersStage(rows, c) ==
    IF c.top_n > 0
    THEN LET leaders ==
                 UNION {LET industry_stocks ==
                                RowsAt(rows, {i \in Indices(rows) :
                                                 rows[i].industry = ind}, 1)
                            top == NLargest(industry_stocks, c.top_n, "cap")
                        IN {top[j].code : j \in Indices(top)}
                        : ind \in {rows[i].industry : i \in Indices(rows)}}
         IN RowsAt(rows, {i \in Indices(rows) : rows[i].code \in leaders}, 1)
    ELSE rows

\* len(hist_data[hist_data['涨跌幅'] >= 9.5])
LimitUpCount(h) == Cardinality({i \in 1..Len(h) : h[i].pct >= 95})

LimitUpOn(c) == c.limit_up_times > 0 /\ c.months > 0

\* mutant of LimitUpStage: at least the requested number of limit-up sessions
LimitUpStageAtLeast(rows, c, hs) ==
    IF LimitUpOn(c)
    THEN RowsAt(rows, {i \in Indices(rows) :
                  LET h == FetchDaily(hs[rows[i].code], 30 * c.months)
                  IN h # <<>> /\ LimitUpCount(h) >= c.limit_up_times}, 1)
    ELSE rows

\* lines 1177-1198: an empty history is not appended
LimitUpStage(rows, c, hs) ==
    IF LimitUpOn(c)
    THEN RowsAt(rows, {i \in Indices(rows) :
                  LET h == FetchDaily(hs[rows[i].code], 30 * c.months)
                  IN h # <<>> /\ LimitUpCount(h) = c.limit_up_times}, 1)
    ELSE rows

\* a fetch for one of the rows raises
FetchRaises(rows, failing) == \E i \in Indices(rows) : rows[i].code \in failing

\* lines 1169-1192, on the rows s11 left by the stages before
FilterFrom11(s11, c, hs, failing) ==
    IF LimitUpOn(c) /\ FetchRaises(s11, failing) THEN None
    ELSE Some(LimitUpStage(s11, c, hs))

\* lines 1122-1166, the verdicts of the technical block given
FilterFrom9(s8, verdicts, c, hs, failing) ==
    FilterFrom11(IndustryLeadersStage(HotStocksStage(
                          TechnicalStage(s8, verdicts), c), c), c, hs, failing)

\* mutant of FilterFrom8: the hot-stocks cut comes last
FilterFrom8HotLast(s8, c, hs, failing) ==
    IF (TechnicalOn(c) \/ LimitUpOn(c)) /\ FetchRaises(s8, failing) THEN None
    ELSE Some(HotStocksStage(LimitUpStage(IndustryLeadersStage(
                  IF TechnicalOn(c) THEN TechnicalStage(s8, TechnicalVerdicts(s8, c, hs))
                  ELSE s8, c), c, hs), c))

\* lines 1121-1192, on the rows s8 left by the stages before
FilterFrom8(s8, c, hs, failing) ==
    IF TechnicalOn(c)
    THEN IF FetchRaises(s8, failing) THEN None
         ELSE FilterFrom9(s8, TechnicalVerdicts(s8, c, hs), c, hs, failing)
    ELSE FilterFrom11(IndustryLeadersStage(HotStocksStage(s8, c), c), c, hs, failing)

\* lines 1105-1192, on the rows s7 left by the stages before
FilterFrom7(s7, c, hs, mins, failing) ==
    IF c.volume_increase /\ FetchRaises(s7, failing) THEN None
    ELSE FilterFrom8(VolumeIncreaseStage(s7, c, mins), c, hs, failing)

\* filter_stocks: None when the try block raises, else the filtered rows.  snap is
\* the provider's answer to the snapshot fetch; a history or intraday fetch for a
\* code in `failing` raises.
filter_stocks(snap, rows, c, hs, mins, failing) ==
    IF snap = "raise" THEN None
    ELSE FilterFrom7(CheckboxStages(RangeStages(rows, c), c), c, hs, mins, failing)

----------------------------------------------------------------------------
(* analyze_trading_signals *)

\* get_price_position (lines 1211-1243); "unknown" is 未知, "low" 低位, "high" 高位,
\* "mid" 中位
get_price_position(h, failed, current_price) ==
    IF failed \/ h = <<>> THEN "unknown"
    ELSE LET price_max   == Max({h[i].close : i \in 1..Len(h)})
             price_min   == Min({h[i].close : i \in 1..Len(h)})
             price_range == price_max - price_min
             position    == Rat((current_price - price_min) * 100,
                                IF price_range = 0 THEN 1 ELSE price_range)
         IN IF price_range = 0 THEN "unknown"
            ELSE IF RLt(position, Num(30)) THEN "low"
            ELSE IF RGt(position, Num(70)) THEN "high"
            ELSE "mid"

\* mutant of SignalSteps: a turnover above 5 also counts as a risk
SignalStepsTurnoverRisk(row, position) ==
    <<IF row.pct > 50 THEN <<2, 0>> ELSE IF row.pct > 20 THEN <<1, 0>> ELSE <<0, 0>>,
      IF row.volume_ratio > 20 THEN <<1, 0>> ELSE <<0, 0>>,
      IF row.turnover > 50 THEN <<1, 1>> ELSE <<0, 0>>,
      IF position = "low" THEN <<2, 0>>
         ELSE IF position = "high" THEN <<0, 2>> ELSE <<0, 0>>>>

\* lines 1266-1280: what the four statements add, <<to rating_score, to risk_score>>
SignalSteps(row, position) ==
    <<IF row.pct > 50 THEN <<2, 0>> ELSE IF row.pct > 20 THEN <<1, 0>> ELSE <<0, 0>>,
      IF row.volume_ratio > 20 THEN <<1, 0>> ELSE <<0, 0>>,
      IF row.turnover > 50 THEN <<1, 0>> ELSE <<0, 0>>,
      IF position = "low" THEN <<2, 0>>
         ELSE IF position = "high" THEN <<0, 2>> ELSE <<0, 0>>>>

\* statements i..n added to rating_score and risk_score
RECURSIVE SignalScoresFrom(_, _, _, _, _)
SignalScoresFrom(steps, i, n, rating_score, risk_score) ==
    IF i > n THEN <<rating_score, risk_score>>
    ELSE SignalScoresFrom(steps, i + 1, n, rating_score + steps[i][1],
                          risk_score + steps[i][2])

\* mutant of SignalScoresAfter: the scores start one below zero
SignalScoresAfterBelowZero(row, position, n) ==
    SignalScoresFrom(SignalSteps(row, position), 1, n, -1, -1)

\* rating_score and risk_score after the first n statements, from 0 and 0
\* (lines 1250-1251)
SignalScoresAfter(row, position, n) ==
    SignalScoresFrom(SignalSteps(row, position), 1, n, 0, 0)

RatingScore(row, position) == SignalScoresAfter(row, position, 4)[1]

RiskScore(row, position) == SignalScoresAfter(row, position, 4)[2]

\* mutant of FinalAdvice: the watch test comes first
FinalAdviceWatchFirst(rating_score, risk_score) ==
    IF rating_score >= 2 /\ risk_score <= 2 THEN "watch"
    ELSE IF rating_score >= 4 /\ risk_score <= 1 THEN "buy"
    ELSE IF risk_score >= 3 THEN "risk"
    ELSE "hold"

\* lines 1283-1290: "buy" 建议买入, "watch" 可以关注, "risk" 注意风险, "hold" 建议观望
FinalAdvice(rating_score, risk_score) ==
    IF rating_score >= 4 /\ risk_score <= 1 THEN "buy"
    ELSE IF rating_score >= 2 /\ risk_score <= 2 THEN "watch"
    ELSE IF risk_score >= 3 THEN "risk"
    ELSE "hold"

analyze_trading_signals(rows, hs, failing) ==
    AsSeq([i \in Indices(rows) |->
        LET position == get_price_position(FetchDaily(hs[rows[i].code], 120),
                                           rows[i].code \in failing, rows[i].price)
            rating   == RatingScore(rows[i], position)
            risk     == RiskScore(rows[i], position)
        IN [code |-> rows[i].code, position |-> position, rating |-> rating,
            risk |-> risk, advice |-> FinalAdvice(rating, risk)]])

----------------------------------------------------------------------------
(* analyze_limit_up_stocks *)

\* lines 1490-1497: sessions counted back from bar i while 涨跌幅 >= 9.5
RECURSIVE LimitUpRun(_, _)
LimitUpRun(h, i) ==
    IF i >= 1 /\ h[i].pct >= 95 THEN 1 + LimitUpRun(h, i - 1) ELSE 0

\* mutant of ConsecutiveLimitUps: every limit-up session of the history counts
ConsecutiveLimitUpsAnywhere(h) == LimitUpCount(h)

\* limit_up_count of lines 1490-1497
ConsecutiveLimitUps(h) == LimitUpRun(h, Len(h))

\* rsi from the 14-bar means of the gains and of the losses (lines 1476-1477);
\* a zero loss gives rs = inf and rsi = 100, 0/0 gives NaN
RsiFrom(gain, loss) ==
    IF gain.nan \/ loss.nan THEN NaN
    ELSE IF loss.num = 0 THEN (IF gain.num = 0 THEN NaN ELSE Num(100))
    ELSE RSub(Num(100), RDiv(Num(100), RAdd(Num(1), RDiv(gain, loss))))

\* lines 1473-1477 at the last bar; the first delta is NaN and counts as 0
Rsi(c) ==
    RsiFrom(ILocNeg(RollingMean(AsSeq([i \in 1..Len(c) |->
                IF i > 1 /\ c[i] > c[i - 1] THEN c[i] - c[i - 1] ELSE 0]), 14), 1),
            ILocNeg(RollingMean(AsSeq([i \in 1..Len(c) |->
                IF i > 1 /\ c[i] < c[i - 1] THEN c[i - 1] - c[i] ELSE 0]), 14), 1))

\* the alignment of the three averages at the last bar and the 5-day change of
\* MA5 in percent (lines 1636-1647)
MaState(ma5, ma10, ma20) ==
    IF MaAligned(ILocNeg(ma5, 1), ILocNeg(ma10, 1), ILocNeg(ma20, 1))
    THEN [state |-> "bull",
          slope |-> RMul(RDiv(RSub(ILocNeg(ma5, 1), ILocNeg(ma5, 5)), ILocNeg(ma5, 5)),
                         Num(100))]
    ELSE IF RLt(ILocNeg(ma5, 1), ILocNeg(ma10, 1)) /\ RLt(ILocNeg(ma10, 1), ILocNeg(ma20, 1))
    THEN [state |-> "bear", slope |-> NaN]
    ELSE [state |-> "none", slope |-> NaN]

\* the three tests on macd and signal (lines 1662-1670)
MacdState(macd, signal) ==
    [golden |-> GoldenCross(macd, signal),
     above  |-> RGt(ILocNeg(macd, 1), Num(0)) /\ RGt(ILocNeg(signal, 1), Num(0)),
     death  |-> RLt(ILocNeg(macd, 1), ILocNeg(signal, 1))
                   /\ RGe(ILocNeg(macd, 2), ILocNeg(signal, 2))]

\* lines 1604-1613: the last close within the range of the closes, 50 by default
CurrentPosition(cmin, cmax, last) ==
    IF cmax - cmin = 0 \/ cmin = 0 THEN Num(50)
    ELSE Rat((last - cmin) * 100, cmax - cmin)

\* what the scoring reads of one limit-up stock: row is its snapshot row, h its
\* 30-day history (not empty), flow its sector's net inflow or None
LimitUpFactors(row, h, flow) ==
    [streak       |-> ConsecutiveLimitUps(h),
     volume_ratio |-> row.volume_ratio,
     ma           |-> MaState(RollingMean(Closes(h), 5), RollingMean(Closes(h), 10),
                              RollingMean(Closes(h), 20)),
     rsi          |-> Rsi(Closes(h)),
     macd         |-> MacdState(MacdLine(Nums(Closes(h))),
                                Ewm(MacdLine(Nums(Closes(h))), Rat(2, 10), FALSE)),
     flow         |-> flow,
     position     |-> CurrentPosition(Min({h[i].close : i \in 1..Len(h)}),
                                      Max({h[i].close : i \in 1..Len(h)}),
                                      h[Len(h)].close),
     volume       |-> [latest |-> h[Len(h)].volume,
                       mean   |-> Rat(SumInts([i \in 1..Len(h) |-> h[i].volume], 1, Len(h)),
                                      Len(h))],
     turnover     |-> row.turnover]

\* the nine factors in the order of lines 1620-1725
Factors ==
    <<"streak", "volume_ratio", "ma", "rsi", "macd", "flow", "position", "volume",
      "turnover">>

\* what one factor adds: <<to rating_score, to risk_score>>
FactorScore(factor, f) ==
    CASE factor = "streak" ->
            IF f.streak >= 3 THEN <<2, 1>>
            ELSE IF f.streak = 2 THEN <<1, 0>> ELSE <<0, 0>>
      [] factor = "volume_ratio" ->
            IF f.volume_ratio > 30 THEN <<2, 0>>
            ELSE IF f.volume_ratio > 20 THEN <<1, 0>>
            ELSE IF f.volume_ratio < 8 THEN <<0, 1>> ELSE <<0, 0>>
      [] factor = "ma" ->
            IF f.ma.state = "bull"
            THEN (IF RGt(f.ma.slope, Num(2)) THEN <<2, 0>> ELSE <<1, 0>>)
            ELSE IF f.ma.state = "bear" THEN <<0, 1>> ELSE <<0, 0>>
      [] factor = "rsi" ->
            IF RLt(Num(50), f.rsi) /\ RLt(f.rsi, Num(70)) THEN <<1, 0>>
            ELSE IF RGt(f.rsi, Num(80)) THEN <<0, 2>>
            ELSE IF RLt(f.rsi, Num(30)) THEN <<0, 1>> ELSE <<0, 0>>
      [] factor = "macd" ->
            IF f.macd.golden THEN <<2, 0>>
            ELSE IF f.macd.above THEN <<1, 0>>
            ELSE IF f.macd.death THEN <<0, 1>> ELSE <<0, 0>>
      [] factor = "flow" ->
            IF f.flow = None THEN <<0, 0>>
            ELSE IF f.flow[1] > 100000000 THEN <<2, 0>>
            ELSE IF f.flow[1] > 0 THEN <<1, 0>>
            ELSE IF f.flow[1] < -100000000 THEN <<0, 2>>
            ELSE IF f.flow[1] < 0 THEN <<0, 1>> ELSE <<0, 0>>
      [] factor = "position" ->
            IF RLt(f.position, Num(30)) THEN <<2, 0>>
            ELSE IF RGt(f.position, Num(70)) THEN <<0, 2>> ELSE <<0, 0>>
      [] factor = "volume" ->
            IF RGt(Num(f.volume.latest), RMul(f.volume.mean, Num(3))) THEN <<2, 0>>
            ELSE IF RGt(Num(f.volume.latest), RMul(f.volume.mean, Num(2))) THEN <<1, 0>>
            ELSE IF RLt(Num(f.volume.latest), RMul(f.volume.mean, Rat(1, 2))) THEN <<0, 1>>
            ELSE <<0, 0>>
      [] factor = "turnover" ->
            IF f.turnover > 150 THEN <<2, 0>>
            ELSE IF f.turnover > 100 THEN <<1, 0>>
            ELSE IF f.turnover < 30 THEN <<0, 1>> ELSE <<0, 0>>

\* factors i..n added to rating_score and risk_score
RECURSIVE ScoresFrom(_, _, _, _, _)
ScoresFrom(f, i, n, rating_score, risk_score) ==
    IF i > n THEN <<rating_score, risk_score>>
    ELSE ScoresFrom(f, i + 1, n, rating_score + FactorScore(Factors[i], f)[1],
                    risk_score + FactorScore(Factors[i], f)[2])

\* mutant of ScoresAfter: the streak is not scored
ScoresAfterStreak(f, n) == ScoresFrom(f, 2, n, 0, 0)

\* rating_score and risk_score after the first n factors, from 0 and 0 (lines 1616-1617)
ScoresAfter(f, n) == ScoresFrom(f, 1, n, 0, 0)

\* mutant of LimitUpRating: the risk labels are tested first
LimitUpRatingRiskFirst(rating_score, risk_score) ==
    IF risk_score >= 5 THEN "strong_risk"
    ELSE IF risk_score >= 3 THEN "caution"
    ELSE IF rating_score >= 8 /\ risk_score <= 2 THEN "strong_recommend"
    ELSE IF rating_score >= 6 /\ risk_score <= 3 THEN "watch"
    ELSE "neutral"

\* lines 1727-1738: "strong_recommend" 强烈推荐, "watch" 建议关注, "strong_risk"
\* 强烈风险, "caution" 注意风险, "neutral" 中性
LimitUpRating(rating_score, risk_score) ==
    IF rating_score >= 8 /\ risk_score <= 2 THEN "strong_recommend"
    ELSE IF rating_score >= 6 /\ risk_score <= 3 THEN "watch"
    ELSE IF risk_score >= 5 THEN "strong_risk"
    ELSE IF risk_score >= 3 THEN "caution"
    ELSE "neutral"

Rated(scores) ==
    [rating |-> scores[1], risk |-> scores[2], label |-> LimitUpRating(scores[1], scores[2])]

\* lines 1616-1738 on the factors f: the scores and the label
ScoreLimitUp(f) == Rated(ScoresAfter(f, Len(Factors)))

\* lines 1426-1434: the rows analysed
IsLimitUp(row) == row.pct >= 95 /\ ~NonMainBoard(row.code)

\* what the loop reads of the limit-up rows from row i on whose history is not
\* empty (lines 1447-1497), the sector flow left open
RECURSIVE LimitUpFacts(_, _, _)
LimitUpFacts(rows, i, hs) ==
    IF i > Len(rows) THEN <<>>
    ELSE (IF IsLimitUp(rows[i]) /\ FetchDaily(hs[rows[i].code], 30) # <<>>
          THEN <<[code |-> rows[i].code,
                  factors |-> LimitUpFactors(rows[i], FetchDaily(hs[rows[i].code], 30), None)]>>
          ELSE <<>>)
         \o LimitUpFacts(rows, i + 1, hs)

\* the records appended (lines 1741-1753) for the stocks whose fetch did not
\* raise, their sector's flow being `flow`
RECURSIVE LimitUpRecords(_, _, _, _)
LimitUpRecords(facts, i, failing, flow) ==
    IF i > Len(facts) THEN <<>>
    ELSE (IF facts[i].code \in failing THEN <<>>
          ELSE <<[code |-> facts[i].code, streak |-> facts[i].factors.streak,
                  scores |-> ScoreLimitUp([facts[i].factors EXCEPT !.flow = flow])]>>)
         \o LimitUpRecords(facts, i + 1, failing, flow)

----------------------------------------------------------------------------
(* Money-flow amounts: python strings are sequences of one-character strings *)

\* str.strip(): whitespace removed at both ends
RECURSIVE LStrip(_)
LStrip(cs) == IF cs # <<>> /\ Head(cs) = " " THEN LStrip(Tail(cs)) ELSE cs

RECURSIVE RStrip(_)
RStrip(cs) ==
    IF cs # <<>> /\ cs[Len(cs)] = " " THEN RStrip(SubSeq(cs, 1, Len(cs) - 1)) ELSE cs

Strip(cs) == RStrip(LStrip(cs))

\* str.replace(ch, ''): every occurrence of ch removed
Without(cs, ch) == SelectSeq(cs, LAMBDA c : c # ch)

\* ch in value
Contains(cs, ch) == \E i \in 1..Len(cs) : cs[i] = ch

DigitValue == [c \in {"0", "1", "2", "3", "4", "5", "6", "7", "8", "9"} |->
                 CASE c = "0" -> 0 [] c = "1" -> 1 [] c = "2" -> 2 [] c = "3" -> 3
                   [] c = "4" -> 4 [] c = "5" -> 5 [] c = "6" -> 6 [] c = "7" -> 7
                   [] c = "8" -> 8 [] c = "9" -> 9]

IsDigit(c) == c \in DOMAIN DigitValue

\* the integer the digits ds spell (0 for none)
RECURSIVE DigitsValue(_)
DigitsValue(ds) ==
    IF ds = <<>> THEN 0
    ELSE 10 * DigitsValue(SubSeq(ds, 1, Len(ds) - 1)) + DigitValue[ds[Len(ds)]]

RECURSIVE Pow10(_)
Pow10(n) == IF n = 0 THEN 1 ELSE 10 * Pow10(n - 1)

\* the unit characters 亿 and 万, spelled in ASCII
Yi == "Y"
Wan == "W"

\* -x on floats
RNeg(a) == IF a.nan THEN NaN ELSE Rat(-a.num, a.den)

\* float(text) of the unsigned decimal body: digits with at most one point and at
\* least one digit; None stands for ValueError
DecimalOf(body) ==
    IF body = <<>> \/ \E i \in 1..Len(body) : ~IsDigit(body[i]) /\ body[i] # "."
        THEN None
    ELSE IF Len(body) - Len(Without(body, ".")) > 1 \/ Without(body, ".") = <<>>
        THEN None
    ELSE IF ~Contains(body, ".") THEN Some(Num(DigitsValue(body)))
    ELSE LET p == CHOOSE i \in 1..Len(body) : body[i] = "."
         IN Some(Rat(DigitsValue(Without(body, ".")), Pow10(Len(body) - p)))

\* float(text): surrounding whitespace is ignored, one sign is accepted.  The
\* exponent, the underscore and the words inf and nan of python's grammar are
\* outside the alphabet of the model.
FloatOf(cs) ==
    LET t == Strip(cs)
    IN IF t # <<>> /\ t[1] = "-"
           THEN (IF DecimalOf(Tail(t)) = None THEN None
                 ELSE Some(RNeg(DecimalOf(Tail(t))[1])))
       ELSE IF t # <<>> /\ t[1] = "+" THEN DecimalOf(Tail(t))
       ELSE DecimalOf(t)

\* a python value handed to convert_flow_value: a str, an int or float, or
\* anything else
StrValue(cs) == [kind |-> "str", text |-> cs, num |-> Num(0)]
NumValue(r) == [kind |-> "num", text |-> <<>>, num |-> r]
OtherValue == [kind |-> "other", text |-> <<>>, num |-> Num(0)]

\* lines 2042-2049 on the text left after the sign was taken off, x the unit
\* numbers of lines 2044 and 2047; None stands for the ValueError of float()
Scaled(parsed, by) == IF parsed = None THEN None ELSE Some(RMul(parsed[1], Num(by)))

\* mutant of FlowMagnitude: the 亿 branch multiplies by ten thousand
FlowMagnitudeYiAsWan(value) ==
    IF Contains(value, Yi) THEN Scaled(FloatOf(Without(value, Yi)), 10000)
    ELSE IF Contains(value, Wan) THEN Scaled(FloatOf(Without(value, Wan)), 10000)
    ELSE FloatOf(value)

FlowMagnitude(value) ==
    IF Contains(value, Yi) THEN Scaled(FloatOf(Without(value, Yi)), 100000000)
    ELSE IF Contains(value, Wan) THEN Scaled(FloatOf(Without(value, Wan)), 10000)
    ELSE FloatOf(value)

\* lines 2034-2039: the text stripped, without separators, and whether it began
\* with '-'
Cleaned(cs) == Without(Strip(cs), ",")
IsNegative(cs) == Cleaned(cs) # <<>> /\ Cleaned(cs)[1] = "-"
Unsigned(cs) == IF IsNegative(cs) THEN Tail(Cleaned(cs)) ELSE Cleaned(cs)

\* convert_flow_value (lines 2027-2056): a number is returned as a float,
\* anything but a str gives 0, and every exception gives 0
convert_flow_value(value) ==
    IF value.kind = "num" THEN value.num
    ELSE IF value.kind # "str" THEN Num(0)
    ELSE IF FlowMagnitude(Unsigned(value.text)) = None THEN Num(0)
    ELSE IF IsNegative(value.text) THEN RNeg(FlowMagnitude(Unsigned(value.text))[1])
    ELSE FlowMagnitude(Unsigned(value.text))[1]

----------------------------------------------------------------------------
(* analyze_market_trend: the trend of the index *)

\* lines 1956-1957 on the last values of the four averages
IndexAlignment(ma5, ma10, ma20, ma60) ==
    [bull |-> RGt(ma5, ma10) /\ RGt(ma10, ma20) /\ RGt(ma20, ma60),
     bear |-> RLt(ma5, ma10) /\ RLt(ma10, ma20) /\ RLt(ma20, ma60)]

\* lines 1962-1965
IndexMacd(macd, signal) ==
    [golden |-> GoldenCross(macd, signal),
     death  |-> RLt(ILocNeg(macd, 1), ILocNeg(signal, 1))
                   /\ RGe(ILocNeg(macd, 2), ILocNeg(signal, 2)),
     above  |-> RGt(ILocNeg(macd, 1), Num(0)) /\ RGt(ILocNeg(signal, 1), Num(0)),
     below  |-> RLt(ILocNeg(macd, 1), Num(0)) /\ RLt(ILocNeg(signal, 1), Num(0))]

\* mutant of MarketTrendOf: the position to the zero axis is tested before the cross
MarketTrendOfAxisFirst(ma, m) ==
    IF ma.bull /\ m.above THEN "mild_up"
    ELSE IF ma.bull /\ m.golden THEN "strong_up"
    ELSE IF ma.bear /\ m.below THEN "mild_down"
    ELSE IF ma.bear /\ m.death THEN "strong_down"
    ELSE "consolidating"

\* lines 1984-1993: "strong_up" 强势上涨, "mild_up" 震荡上涨, "strong_down" 强势下跌,
\* "mild_down" 震荡下跌, "consolidating" 震荡整理
MarketTrendOf(ma, m) ==
    IF ma.bull /\ m.golden THEN "strong_up"
    ELSE IF ma.bull /\ m.above THEN "mild_up"
    ELSE IF ma.bear /\ m.death THEN "strong_down"
    ELSE IF ma.bear /\ m.below THEN "mild_down"
    ELSE "consolidating"

\* lines 1995-2006: "go_long" 可以积极做多，但注意高位风险, "buy_dips" 可以逢低买入，注意节奏,
\* "clear_out" 建议清仓观望，等待企稳, "stay_light" 建议轻仓观望，等待企稳,
\* "wait" 建议观望，等待方向明确
MarketAdvice(trend) ==
    IF trend = "strong_up" THEN "go_long"
    ELSE IF trend = "mild_up" THEN "buy_dips"
    ELSE IF trend = "strong_down" THEN "clear_out"
    ELSE IF trend = "mild_down" THEN "stay_light"
    ELSE "wait"

\* f"{x:.2f}": x to the nearest hundredth, a tie to the even one
Round2(a) ==
    IF a.nan THEN NaN
    ELSE LET q   == (200 * a.num + a.den) \div (2 * a.den)
             tie == (200 * a.num + a.den) % (2 * a.den) = 0
         IN Rat(IF tie /\ q % 2 = 1 THEN q - 1 ELSE q, 100)

\* list.sort(key=..., reverse=True) on a key of floats: largest first, equal
\* keys in the order they had; SortRank is the place an element is moved to
SortRank(xs, key, i) ==
    1 + Cardinality({j \in 1..Len(xs) :
                        \/ RGt(xs[j][key], xs[i][key])
                        \/ j < i /\ ~RGt(xs[i][key], xs[j][key])})

SortByDesc(xs, key) ==
    CHOOSE sorted \in {AsSeq([k \in 1..Len(v) |->
                                 v[CHOOSE i \in 1..Len(v) : SortRank(v, key, i) = k]]) :
                          v \in {xs}} : TRUE

\* lines 2077-2085: the cells of the flow fields the row has, in the order of
\* possible_fields, converted until one is not 0
RECURSIVE FlowValueFrom(_, _, _)
FlowValueFrom(cells, i, flow_value) ==
    IF i > Len(cells) THEN flow_value
    ELSE IF convert_flow_value(cells[i]) # Num(0) THEN convert_flow_value(cells[i])
    ELSE FlowValueFrom(cells, i + 1, Num(0))

FlowValue(cells) == FlowValueFrom(cells, 1, Num(0))

\* line 2067: the mean of the constituents' 涨跌幅
AvgChange(sec) == MeanSkipNa(sec.cons[1])

\* lines 2060-2071: the sector reaches the two tests
SectorAnalysed(sec) == sec.cons # None /\ sec.cons[1] # <<>> /\ sec.row # None

\* lines 2088 and 2097
IsStrongSector(avg_change, flow_value) ==
    RGt(avg_change, Num(2)) /\ RGt(flow_value, Num(0))

\* mutant of IsPotentialSector: the mean change may reach 2
IsPotentialSectorUpTo2(avg_change, flow_value) ==
    RLe(avg_change, Num(2)) /\ RGt(flow_value, Num(50000000))

IsPotentialSector(avg_change, flow_value) ==
    RLt(avg_change, Num(2)) /\ RGt(flow_value, Num(50000000))

\* the dict of lines 2089-2094 and 2098-2103: the name, the change as printed
\* and the raw inflow
SectorEntry(sec) ==
    [name |-> sec.name, change |-> Round2(AvgChange(sec)), flow |-> FlowValue(sec.row[1])]

\* the lists of lines 2020-2021 after the loop of lines 2059-2106
RECURSIVE StrongAppended(_, _)
StrongAppended(secs, i) ==
    IF i > Len(secs) THEN <<>>
    ELSE (IF SectorAnalysed(secs[i])
                /\ IsStrongSector(AvgChange(secs[i]), FlowValue(secs[i].row[1]))
          THEN <<SectorEntry(secs[i])>> ELSE <<>>)
         \o StrongAppended(secs, i + 1)

RECURSIVE PotentialAppended(_, _)
PotentialAppended(secs, i) ==
    IF i > Len(secs) THEN <<>>
    ELSE (IF SectorAnalysed(secs[i])
                /\ IsPotentialSector(AvgChange(secs[i]), FlowValue(secs[i].row[1]))
          THEN <<SectorEntry(secs[i])>> ELSE <<>>)
         \o PotentialAppended(secs, i + 1)

\* lines 2009-2118: both lists are empty when a fetch of lines 2011-2024 raises
SectorAnalysis(outcome, secs) ==
    IF outcome = "raise" THEN [strong |-> <<>>, potential |-> <<>>]
    ELSE [strong    |-> SortByDesc(StrongAppended(secs, 1), "change"),
          potential |-> SortByDesc(PotentialAppended(secs, 1), "flow")]

Advised(trend) == [trend |-> trend, advice |-> MarketAdvice(trend)]

\* the dict of lines 2120-2134: the trend, the advice and the two sector lists
WithSectors(lists, trend) ==
    [trend |-> trend, advice |-> MarketAdvice(trend),
     strong |-> lists.strong, potential |-> lists.potential]

\* analyze_market_trend on the closes c of the index: None when the fetch
\* raises, the frame is empty (line 1900) or ma5.iloc[-5] is out of range
\* (line 1958, caught at line 2136), else the trend and the advice
analyze_market_trend(outcome, c, lists) ==
    IF outcome = "raise" \/ c = <<>> \/ Len(c) < 5 THEN None
    ELSE Some(WithSectors(lists, MarketTrendOf(
                 IndexAlignment(ILocNeg(RollingMean(c, 5), 1), ILocNeg(RollingMean(c, 10), 1),
                                ILocNeg(RollingMean(c, 20), 1), ILocNeg(RollingMean(c, 60), 1)),
                 IndexMacd(MacdLine(Nums(c)), Ewm(MacdLine(Nums(c)), Rat(2, 10), FALSE)))))

----------------------------------------------------------------------------
(* analyze_money_flow: the three tiers *)

\* abs(x) on floats
RAbs(a) == IF a.nan THEN NaN ELSE Rat(Abs(a.num), a.den)

\* lines 2176-2182 on one cell: str(cell) of a number reads back as the number;
\* a text loses its separators and is read by float(), which takes the sign and
\* the padding itself; None stands for the exception of line 2184
InlineFlow(cell) ==
    IF cell.kind = "num" THEN Some(cell.num)
    ELSE IF cell.kind # "str" THEN None
    ELSE FlowMagnitude(Without(cell.text, ","))

\* lines 2172-2185: the first cell, among the columns whose name holds
\* 主力净流入, that can be read; 0 when there is none
RECURSIVE MainFlowFrom(_, _)
MainFlowFrom(cells, i) ==
    IF i > Len(cells) THEN Num(0)
    ELSE IF InlineFlow(cells[i]) # None THEN InlineFlow(cells[i])[1]
    ELSE MainFlowFrom(cells, i + 1)

MainFlowOf(row) == MainFlowFrom(row.cells, 1)

\* mutant of TierOf: a flow on a threshold falls to the tier below
TierOfAbove(main_flow) ==
    IF RGt(RAbs(main_flow), Num(50000000)) THEN "5000w"
    ELSE IF RGt(RAbs(main_flow), Num(10000000)) THEN "1000w"
    ELSE IF RGt(RAbs(main_flow), Num(1000000)) THEN "100w"
    ELSE "none"

\* lines 2258-2263
TierOf(main_flow) ==
    IF RGe(RAbs(main_flow), Num(50000000)) THEN "5000w"
    ELSE IF RGe(RAbs(main_flow), Num(10000000)) THEN "1000w"
    ELSE IF RGe(RAbs(main_flow), Num(1000000)) THEN "100w"
    ELSE "none"

\* the dict of lines 2247-2255, with the key the tiers are sorted by
FlowEntry(row) ==
    [code |-> row.code, flow |-> MainFlowOf(row), size |-> RAbs(MainFlowOf(row))]

\* the list of one tier after the loop of lines 2161-2268: a row without 代码
\* is passed over (line 2165)
RECURSIVE TierAppended(_, _, _)
TierAppended(rows, i, tier) ==
    IF i > Len(rows) THEN <<>>
    ELSE (IF rows[i].code # "" /\ TierOf(MainFlowOf(rows[i])) = tier
          THEN <<FlowEntry(rows[i])>> ELSE <<>>)
         \o TierAppended(rows, i + 1, tier)

\* analyze_money_flow (lines 2142-2285): None when a fetch raises
analyze_money_flow(outcome, rows) ==
    IF outcome = "raise" THEN None
    ELSE Some([stock_flows_5000w |-> SortByDesc(TierAppended(rows, 1, "5000w"), "size"),
               stock_flows_1000w |-> SortByDesc(TierAppended(rows, 1, "1000w"), "size"),
               stock_flows_100w  |-> SortByDesc(TierAppended(rows, 1, "100w"), "size")])

----------------------------------------------------------------------------
(* State machine: the engine instance and the provider *)

Op(name, sym, note) == [name |-> name, sym |-> sym, note |-> note]

Zero == [s \in Symbols |-> 0]

\* counters after a call that fetched / computed for the codes in `done`
Bump(counter, done) == [s \in Symbols |-> counter[s] + (IF s \in done THEN 1 ELSE 0)]

\* the fetch counter leaves room for one more call on each of the codes
Room(codes) ==
    \A i \in 1..Len(codes) :
        CacheHit(ma_trend_cache, codes[i]) \/ fetches[codes[i]] < MaxFetches

\* histories the provider moves between in the cache specification: none, a flat
\* series whose last bar jumps (turning up), a single bar
CacheHists ==
    {<<>>, SeriesOf(TrendCloses(22, 0, <<0, 0, 3>>)), SeriesOf(<<7>>)}

SnapshotA ==
    <<Row("600001", 4, 50, 50, 20, 1000, 9, "bank"),
      Row("300003", 9, 120, 80, 30, 2000, 7, "tech"),
      Row("000002", 3, 100, 20, 10, 800, 5, "bank")>>

\* a second snapshot: turnover 0 and the extremes of the ranges
SnapshotB ==
    <<Row("000002", 5, -20, 0, 5, 500, 3, "bank"),
      Row("600001", 1, 95, 100, 100, 3000, 8, "steel")>>

Snapshots == {SnapshotA, SnapshotB}

\* closes of the index: IndexBars bars at most, flat at 40 but for the moves
\* d1 and d2 of the last two bars
IndexCloses(L, d1, d2) ==
    AsSeq([i \in 1..L |-> 40 + (IF i = L - 1 THEN d1 ELSE IF i = L THEN d1 + d2 ELSE 0)])

IndexMoves == {-6, -1, 0, 1, 6}

IndexFamily ==
    {<<>>, <<40, 41, 42>>}
    \cup {IndexCloses(L, d1, d2) :
             L \in {IndexBars - 32, IndexBars - 3, IndexBars - 2, IndexBars},
             d1 \in IndexMoves, d2 \in IndexMoves}

\* a 涨跌幅 of n hundredths of a percent point
Pct(n) == Rat(n, 100)

\* an industry board: its name, its constituents' 涨跌幅 (None when
\* stock_board_industry_cons_em raises for it) and the cells of its fund-flow row
\* under the fields of line 2078 (None when no row has its name)
Sector(name, cons, row) == [name |-> name, cons |-> cons, row |-> row]

\* the boards the other specifications see: one strong, one potential
SectorsA ==
    <<Sector("A", Some(<<Pct(250), Pct(350)>>), Some(<<NumValue(Num(1))>>)),
      Sector("B", Some(<<Pct(100)>>), Some(<<NumValue(Num(60000000))>>))>>

\* a row of the fund-flow ranking: its 代码 ("" when it has none) and the cells
\* of the columns whose name holds 主力净流入, in column order
FlowRow(code, cells) == [code |-> code, cells |-> cells]

\* the ranking the other specifications see
StockFlowA ==
    <<FlowRow("600001", <<NumValue(Num(20000000))>>),
      FlowRow("000002", <<NumValue(Num(-60000000))>>)>>

\* the index the other specifications see: six rising bars
IndexA == <<40, 41, 42, 43, 44, 45>>

\* today's intraday volumes: rising, too short, none
MinuteA == [s \in Symbols |->
               IF s = "600001" THEN <<3, 1, 2, 4>>
               ELSE IF s = "000002" THEN <<2, 5>> ELSE <<>>]

\* daily histories of the filter specification: a flat series whose last bar
\* jumps, two bars (the second a limit-up), none
FilterHists == [s \in Symbols |->
                   IF s = "600001" THEN SeriesOf(TrendCloses(22, 0, <<0, 0, 3>>))
                   ELSE IF s = "000002"
                        THEN <<[Bar(1, 7, 1) EXCEPT !.low = 6],
                               [Bar(0, 8, 2) EXCEPT !.pct = 100, !.low = 7]>>
                        ELSE <<>>]

CodeSet(rows) == {rows[i].code : i \in 1..Len(rows)}

\* check_ma_trend(stock_code), as called once
CheckMaTrend(s) ==
    /\ pc = "idle"
    /\ Room(<<s>>)
    /\ \E outcome \in Outcomes :
         LET r == check_ma_trend(ma_trend_cache, s, outcome, FetchDaily(hist[s], 60))
         IN /\ ma_trend_cache' = r.cache
            /\ ret' = r.ret
            /\ op' = Op("check_ma_trend", s,
                        IF ~r.fetched THEN "hit" ELSE IF outcome = "raise" THEN "raise" ELSE "miss")
            /\ fetches' = Bump(fetches, IF r.fetched THEN {s} ELSE {})
            /\ computes' = Bump(computes, IF r.computed THEN {s} ELSE {})
    /\ UNCHANGED <<hist, minute, index, sectors, stock_flow, snapshot, crit, pc, edits>>

\* mutant of RefreshClear: the clear is left to the try block
RefreshClearLeftToTry ==
    /\ pc = "idle"
    /\ fetches' = fetches
    /\ computes' = computes
    /\ pc' = "refresh_fetch"
    /\ op' = Op("refresh_data", "-",
                IF ma_trend_cache = EmptyCache THEN "clear_empty" ELSE "clear_entries")
    /\ ret' = None
    /\ UNCHANGED <<ma_trend_cache, hist, minute, index, sectors, stock_flow, snapshot, crit, edits>>

\* refresh_data, line 768: the cache is cleared first
RefreshClear ==
    /\ pc = "idle"
    /\ ma_trend_cache' = clear_ma_trend_cache(ma_trend_cache)
    /\ fetches' = Zero
    /\ computes' = Zero
    /\ pc' = "refresh_fetch"
    /\ op' = Op("refresh_data", "-",
                IF ma_trend_cache = EmptyCache THEN "clear_empty" ELSE "clear_entries")
    /\ ret' = None
    /\ UNCHANGED <<hist, minute, index, sectors, stock_flow, snapshot, crit, edits>>

\* refresh_data, lines 769-837: the snapshot fetch and the table update, or the
\* except branch
RefreshFetch ==
    /\ pc = "refresh_fetch"
    /\ \E outcome \in Outcomes :
          op' = [name |-> "refresh_data", sym |-> "-", note |-> outcome, found |-> op.note]
    /\ pc' = "idle"
    /\ ret' = None
    /\ UNCHANGED <<ma_trend_cache, hist, minute, index, sectors, stock_flow, snapshot, crit, fetches, computes, edits>>

\* the provider's answers that matter: a cached code is not fetched at all
Relevant(outcome) ==
    \A c \in MainSymbols : CacheHit(ma_trend_cache, c) => outcome[c] = "ok"

\* the 5-day fetch happens for bullish codes only
Relevant5(rows, rets, outcome5) ==
    \A c \in MainSymbols :
        (\A i \in 1..Len(rows) : rows[i].code = c => ~rets[i].pos) => outcome5[c] = "ok"

\* show_ma_up_stocks
ShowMaUpStocks ==
    /\ pc = "idle"
    /\ \/ /\ op' = Op("show_ma_up_stocks", "-", "raise")
          /\ ret' = None
          /\ UNCHANGED <<ma_trend_cache, fetches, computes>>
       \/ \E outcome \in [MainSymbols -> Outcomes] :
            LET rows == SelectSeq(snapshot, IsMainBoardUp)
                r    == ClassifyAll(ma_trend_cache, CodesOf(rows), outcome, hist)
            IN /\ Relevant(outcome)
               /\ Room(CodesOf(rows))
               /\ ma_trend_cache' = r.cache
               /\ fetches' = Bump(fetches, r.fetched)
               /\ computes' = Bump(computes, r.computed)
               /\ op' = Op("show_ma_up_stocks", "-", "ok")
               /\ ret' = MaUpList(rows, r.rets)
    /\ UNCHANGED <<hist, minute, index, sectors, stock_flow, snapshot, crit, pc, edits>>

\* show_ma_stocks
ShowMaStocks ==
    /\ pc = "idle"
    /\ \/ /\ op' = Op("show_ma_stocks", "-", "raise")
          /\ ret' = None
          /\ UNCHANGED <<ma_trend_cache, fetches, computes>>
       \/ \E outcome \in [MainSymbols -> Outcomes] :
            LET rows == SelectSeq(snapshot, IsMainBoard)
                r    == ClassifyAll(ma_trend_cache, CodesOf(rows), outcome, hist)
            IN /\ Relevant(outcome)
               /\ Room(CodesOf(rows))
               /\ ma_trend_cache' = r.cache
               /\ fetches' = Bump(fetches, r.fetched)
               /\ computes' = Bump(computes, r.computed)
               /\ op' = Op("show_ma_stocks", "-", "ok")
               /\ \E outcome5 \in [MainSymbols -> Outcomes] :
                    /\ Relevant5(rows, r.rets, outcome5)
                    /\ ret' = MaLists(rows, r.rets, outcome5, hist)
    /\ UNCHANGED <<hist, minute, index, sectors, stock_flow, snapshot, crit, pc, edits>>

\* the provider's history of one symbol changes (a new session, a revised bar)
ProviderChange(s) ==
    /\ \E h \in CacheHists : h # hist[s] /\ hist' = [hist EXCEPT ![s] = h]
    /\ op' = Op("provider", s, "-")
    /\ ret' = None
    /\ UNCHANGED <<ma_trend_cache, minute, index, sectors, stock_flow, snapshot, crit, pc, fetches, computes, edits>>

\* after __init__: initUI has built the widgets and run refresh_data (line 524)
Init ==
    /\ ma_trend_cache = EmptyCache
    /\ hist \in [Symbols -> {<<>>, SeriesOf(<<7>>)}]
    /\ hist["300003"] = <<>>
    /\ minute = MinuteA
    /\ index = IndexA
    /\ sectors = SectorsA
    /\ stock_flow = StockFlowA
    /\ snapshot = SnapshotA
    /\ crit = InitialWidgets
    /\ edits = 0
    /\ pc = "idle"
    /\ op = Op("init", "-", "-")
    /\ ret = None
    /\ fetches = Zero
    /\ computes = Zero

\* the values a widget is set to by hand
WidgetValues(f) ==
    CASE f \in {"turnover_min", "turnover_max"} -> {0, 30, 100}
      [] f \in {"price_change_min", "price_change_max"} -> {-200, 30, 100}
      [] f \in {"volume_ratio_min", "volume_ratio_max"} -> {0, 10, 100}
      [] f \in {"price_min", "price_max"} -> {0, 1, 5}
      [] f \in {"market_cap_min", "market_cap_max"} -> {0, 50, 300}
      [] f \in {"top_n", "hot_stocks_n", "months", "limit_up_times"} -> {0, 1}
      [] OTHER -> BOOLEAN

RangeWidgets ==
    {"turnover_min", "turnover_max", "price_change_min", "price_change_max",
     "volume_ratio_min", "volume_ratio_max", "price_min", "price_max",
     "market_cap_min", "market_cap_max"}

\* the user changes one of the widgets in F
SetWidget(F) ==
    /\ pc = "idle"
    /\ edits < MaxEdits
    /\ \E f \in F : \E v \in WidgetValues(f) :
         /\ crit[f] # v
         /\ crit' = [crit EXCEPT ![f] = v]
         /\ op' = Op("set_widget", f, "-")
    /\ edits' = edits + 1
    /\ ret' = None
    /\ UNCHANGED <<ma_trend_cache, hist, minute, index, sectors, stock_flow, snapshot, pc, fetches, computes>>

\* clear_filter_conditions
ClearFilterConditions ==
    /\ pc = "idle"
    /\ crit' = ClearedWidgets
    /\ edits' = 0
    /\ op' = Op("clear_filter_conditions", "-", "-")
    /\ ret' = None
    /\ UNCHANGED <<ma_trend_cache, hist, minute, index, sectors, stock_flow, snapshot, pc, fetches, computes>>

\* set_default_conditions
SetDefaultConditions ==
    /\ pc = "idle"
    /\ crit' = DefaultWidgets
    /\ edits' = 0
    /\ op' = Op("set_default_conditions", "-", "-")
    /\ ret' = None
    /\ UNCHANGED <<ma_trend_cache, hist, minute, index, sectors, stock_flow, snapshot, pc, fetches, computes>>

FetchStagesOn(c) == c.volume_increase \/ TechnicalOn(c) \/ LimitUpOn(c)

\* apply_filter: filter_stocks, then show_filtered_results with
\* analyze_trading_signals on the filtered rows.  A fetch inside filter_stocks
\* raises for the codes in failing, one inside analyze_trading_signals for the
\* codes in failing2.
ApplyResult(filtered, hs, failing2) ==
    [filtered |-> filtered,
     signals  |-> IF filtered = None THEN None
                  ELSE Some(analyze_trading_signals(filtered[1], hs, failing2))]

\* apply_filter as the last handler: raising and raising2 are the codes whose
\* fetch raised in filter_stocks and in analyze_trading_signals
FilterOp(note, failing, failing2) ==
    [name |-> "apply_filter", sym |-> "-", note |-> note,
     raising |-> failing, raising2 |-> failing2]

\* show_filtered_results(filtered): the signals of the rows, whichever fetches fail
ShowFiltered(filtered, note, failing) ==
    \E failing2 \in SUBSET (IF filtered = None THEN {} ELSE CodeSet(filtered[1])) :
        /\ ret' = ApplyResult(filtered, hist, failing2)
        /\ op' = FilterOp(note, failing, failing2)

\* mutant of apply_filter: the rows of the snapshot are classified on the way
ApplyFilterClassifying ==
    /\ pc = "idle"
    /\ ShowFiltered(filter_stocks("ok", snapshot, crit, hist, minute, {}), "ok", {})
    /\ ma_trend_cache' =
          ClassifyAll(ma_trend_cache, CodesOf(snapshot), [c \in Symbols |-> "ok"], hist).cache
    /\ UNCHANGED <<hist, minute, index, sectors, stock_flow, snapshot, crit, pc, fetches, computes, edits>>

\* the codes a fetch stage of filter_stocks can reach: those of the rows left
\* by the range and check-box stages
Fetchable(rows, c) ==
    IF FetchStagesOn(c) THEN CodeSet(CheckboxStages(RangeStages(rows, c), c)) ELSE {}

ApplyFilter ==
    /\ pc = "idle"
    /\ \/ ShowFiltered(filter_stocks("raise", snapshot, crit, hist, minute, {}), "raise", {})
       \/ \E failing \in SUBSET Fetchable(snapshot, crit) :
               ShowFiltered(filter_stocks("ok", snapshot, crit, hist, minute, failing),
                            "ok", failing)
    /\ UNCHANGED <<ma_trend_cache, hist, minute, index, sectors, stock_flow, snapshot, crit, pc, fetches, computes, edits>>

\* analyze_limit_up_stocks, analyze_market_trend, analyze_money_flow: each reads
\* the provider and reports in a dialog; none reads or writes a field of the
\* screener, an exception ends in the handler's own except branch
\* sector net inflows the provider may report for a stock; None when the
\* stock's sector is not found (the except of lines 1691-1692)
SectorFlows == {None, Some(200000000), Some(-1)}

\* values of the nine factors for one scoring run
FactorInputs ==
    [streak       : {0, 2, 3},
     volume_ratio : {5, 25, 40},
     ma           : {[state |-> "bull", slope |-> Num(3)], [state |-> "bull", slope |-> Num(2)],
                     [state |-> "bear", slope |-> NaN], [state |-> "none", slope |-> NaN]},
     rsi          : {NaN, Num(20), Num(60), Num(90)},
     macd         : {[golden |-> TRUE, above |-> TRUE, death |-> FALSE],
                     [golden |-> FALSE, above |-> TRUE, death |-> TRUE],
                     [golden |-> FALSE, above |-> FALSE, death |-> TRUE],
                     [golden |-> FALSE, above |-> FALSE, death |-> FALSE]},
     flow         : {None, Some(200000000), Some(100000000), Some(-1), Some(-200000000)},
     position     : {Num(20), Num(50), Num(80)},
     volume       : {[latest |-> 4, mean |-> Num(1)], [latest |-> 3, mean |-> Num(1)],
                     [latest |-> 1, mean |-> Num(1)], [latest |-> 1, mean |-> Num(4)]},
     turnover     : {20, 50, 120, 180}]

\* one pass of the scoring of lines 1616-1738, on the factor values at hand
ScoreLimitUpStock ==
    /\ pc = "idle"
    /\ op.name = "factors"
    /\ op' = [op EXCEPT !.name = "score_limit_up"]
    /\ ret' = ScoreLimitUp(op.factors)
    /\ UNCHANGED <<ma_trend_cache, hist, minute, index, sectors, stock_flow, snapshot, crit, pc, fetches, computes, edits>>

\* analyze_limit_up_stocks past its first fetches: the fetch of some stocks
\* raises, the others are scored
AnalyzeLimitUp(facts) ==
    \E failing \in SUBSET {facts[i].code : i \in 1..Len(facts)} : \E flow \in SectorFlows :
        /\ op' = [name |-> "analyze_limit_up_stocks", sym |-> "-", note |-> "ok",
                  raising |-> failing, flow |-> flow]
        /\ ret' = LimitUpRecords(facts, 1, failing, flow)

\* analyze_limit_up_stocks: [] when a fetch before the loop raises (lines 1761-1763)
AnalyzeLimitUpStocks ==
    /\ pc = "idle"
    /\ \/ /\ op' = [name |-> "analyze_limit_up_stocks", sym |-> "-", note |-> "raise",
                    raising |-> {}, flow |-> None]
          /\ ret' = <<>>
       \/ AnalyzeLimitUp(LimitUpFacts(snapshot, 1, hist))
    /\ UNCHANGED <<ma_trend_cache, hist, minute, index, sectors, stock_flow, snapshot, crit, pc, fetches, computes, edits>>

AnalyzeMarketTrend ==
    /\ pc = "idle"
    /\ \E outcome \in Outcomes, sector_outcome \in Outcomes :
          /\ op' = [name |-> "analyze_market_trend", sym |-> "-", note |-> outcome,
                    sectors |-> sector_outcome]
          /\ ret' = analyze_market_trend(outcome, index, SectorAnalysis(sector_outcome, sectors))
    /\ UNCHANGED <<ma_trend_cache, hist, minute, index, sectors, stock_flow, snapshot, crit, pc, fetches, computes, edits>>

\* hist_data['收盘'].rolling(n).mean() on the series that is waiting
RollingMeanOf ==
    /\ pc = "idle"
    /\ op.name = "series"
    /\ op' = [op EXCEPT !.name = "rolling_mean"]
    /\ ret' = RollingMean(op.closes, op.window)
    /\ UNCHANGED <<ma_trend_cache, hist, minute, index, sectors, stock_flow, snapshot, crit, pc, fetches, computes, edits>>

\* convert_flow_value on the value that is waiting to be converted
ConvertFlowValue ==
    /\ pc = "idle"
    /\ op.name = "value"
    /\ op' = [op EXCEPT !.name = "convert_flow_value"]
    /\ ret' = convert_flow_value(op.value)
    /\ UNCHANGED <<ma_trend_cache, hist, minute, index, sectors, stock_flow, snapshot, crit, pc, fetches, computes, edits>>

AnalyzeMoneyFlow ==
    /\ pc = "idle"
    /\ \E outcome \in Outcomes :
          /\ op' = Op("analyze_money_flow", "-", outcome)
          /\ ret' = analyze_money_flow(outcome, stock_flow)
    /\ UNCHANGED <<ma_trend_cache, hist, minute, index, sectors, stock_flow, snapshot, crit, pc, fetches, computes, edits>>

Next ==
    \/ \E s \in MainSymbols : CheckMaTrend(s)
    \/ RefreshClear
    \/ RefreshFetch
    \/ ShowMaUpStocks
    \/ ShowMaStocks
    \/ ApplyFilter
    \/ AnalyzeLimitUpStocks
    \/ AnalyzeMarketTrend
    \/ AnalyzeMoneyFlow
    \/ \E s \in MainSymbols : ProviderChange(s)

Spec == Init /\ [][Next]_vars

----------------------------------------------------------------------------
(* The trend cache: claims C1-C5, specification Spec *)

Classifiers == {"check_ma_trend", "show_ma_stocks", "show_ma_up_stocks"}

\* C1: a check_ma_trend call for a symbol that is in ma_trend_cache returns the
\* cached pair and neither fetches a history nor computes a trend, whatever
\* calls came before; the same holds for every cached symbol in a batch.
C1_CacheHitSkipsFetch ==
    [][\A s \in DOMAIN ma_trend_cache :
          /\ (op'.name = "check_ma_trend" /\ op'.sym = s)
                => /\ ret' = ma_trend_cache[s]
                   /\ ma_trend_cache' = ma_trend_cache
                   /\ fetches' = fetches
                   /\ computes' = computes
          /\ op'.name \in Classifiers
                => /\ fetches'[s] = fetches[s]
                   /\ computes'[s] = computes[s]]_vars

\* a hit that returned the cached classification of a history the provider no
\* longer serves
C1_Witness ==
    /\ op.name = "check_ma_trend"
    /\ op.note = "hit"
    /\ op.sym \in DOMAIN ma_trend_cache
    /\ ret = ma_trend_cache[op.sym]
    /\ ret.pos
    /\ hist[op.sym] = <<>>
    /\ fetches[op.sym] = 1

\* C2: the cache loses entries only all at once and only in the first step of
\* refresh_data, before the snapshot fetch; no step removes one entry and keeps
\* another.
C2_ClearedOnlyAsAWhole ==
    /\ [](pc = "refresh_fetch" => ma_trend_cache = EmptyCache)
    /\ [][(\E s \in DOMAIN ma_trend_cache : s \notin DOMAIN ma_trend_cache')
             => /\ ma_trend_cache' = EmptyCache
                /\ op'.name = "refresh_data"
                /\ pc = "idle" /\ pc' = "refresh_fetch"]_vars

\* refresh_data has just emptied a cache that held entries, the snapshot fetch
\* still ahead
C2_Witness ==
    /\ pc = "refresh_fetch"
    /\ op = Op("refresh_data", "-", "clear_entries")
    /\ ma_trend_cache = EmptyCache

\* C3 as stated: at most one history fetch and one trend computation per symbol
\* between two clears, an empty history or a raising fetch included.
C3_AtMostOneFetchPerCycle ==
    \A s \in Symbols : fetches[s] <= 1 /\ computes[s] <= 1

\* C3 amended: at most one trend computation per symbol between two clears, and
\* the symbol is cached from then on (so not fetched again, C1); calls that end
\* in an empty history or an exception are not counted out: each fetches again.
C3_AtMostOneComputationPerCycle ==
    \A s \in Symbols :
        /\ computes[s] <= 1
        /\ computes[s] <= fetches[s]
        /\ computes[s] = 1 <=> s \in DOMAIN ma_trend_cache

\* a failed call, then the computing call, then a hit: two fetches, one
\* computation
C3_Witness ==
    /\ op.name = "check_ma_trend"
    /\ op.note = "hit"
    /\ fetches[op.sym] = 2
    /\ computes[op.sym] = 1

\* C4: an entry of the cache keeps its value in every step that keeps the
\* entry, and only refresh_data drops it; so a value is written only for a
\* symbol that has no entry.
C4_EntriesAreStable ==
    [][\A s \in DOMAIN ma_trend_cache :
          IF s \in DOMAIN ma_trend_cache'
          THEN ma_trend_cache'[s] = ma_trend_cache[s]
          ELSE op'.name = "refresh_data"]_vars

\* a classification ran over a symbol whose entry differs from what the
\* provider's history would give now, and the entry is still the old one
C4_Witness ==
    /\ op.name \in {"show_ma_stocks", "show_ma_up_stocks"}
    /\ op.note = "ok"
    /\ \E s \in DOMAIN ma_trend_cache :
         /\ hist[s] # <<>>
         /\ ma_trend_cache[s].pos
         /\ ma_trend_cache[s].latest # Some(hist[s][Len(hist[s])])

\* C5: ma_trend_cache changes only in steps of check_ma_trend (alone or in the
\* two list handlers) and of refresh_data, which only empties it; apply_filter
\* (filter_stocks, analyze_trading_signals) and the three analyses leave it as
\* it is.
C5_OnlyClassificationWrites ==
    [][/\ ma_trend_cache' # ma_trend_cache => op'.name \in Classifiers \cup {"refresh_data"}
       /\ op'.name = "refresh_data" => ma_trend_cache' \in {ma_trend_cache, EmptyCache}
       /\ op'.name \in {"apply_filter", "analyze_limit_up_stocks",
                        "analyze_market_trend", "analyze_money_flow"}
             => ma_trend_cache' = ma_trend_cache
       /\ \A s \in DOMAIN ma_trend_cache' \ DOMAIN ma_trend_cache :
             /\ op'.name \in Classifiers
             /\ computes'[s] = computes[s] + 1]_vars

\* the filter has run and returned rows while both main-board symbols were
\* cached
C5_Witness ==
    /\ op.name = "apply_filter" /\ op.note = "ok"
    /\ ret.filtered # None
    /\ DOMAIN ma_trend_cache = MainSymbols

----------------------------------------------------------------------------
(* The trend classifier: claims C6 and C7, specification SpecTrend *)

TrendSymbol == "600001"

\* the last three bars of a history move by these amounts off the line
TailMoves == {-6, 0, 6}

\* one symbol with a history of 0..MaxBars bars, falling, flat or rising, its
\* last three bars moved
InitTrend ==
    /\ ma_trend_cache = EmptyCache
    /\ \E L \in 0..MaxBars : \E d \in {-1, 0, 1} :
       \E e \in [1..3 -> TailMoves] :
          hist = [s \in Symbols |->
                    IF s = TrendSymbol THEN SeriesOf(TrendCloses(L, d, AsSeq(e))) ELSE <<>>]
    /\ minute = MinuteA
    /\ index = IndexA
    /\ sectors = SectorsA
    /\ stock_flow = StockFlowA
    /\ snapshot = SnapshotA
    /\ crit = InitialWidgets
    /\ edits = 0
    /\ pc = "idle"
    /\ op = Op("init", "-", "-")
    /\ ret = None
    /\ fetches = Zero
    /\ computes = Zero

NextTrend == CheckMaTrend(TrendSymbol)

SpecTrend == InitTrend /\ [][NextTrend]_vars

\* the history the last call was about
Called == hist[op.sym]
LastBar == Called[Len(Called)]

\* C6 as stated: with fewer than 31 bars (0 included) check_ma_trend returns
\* exactly (False, None).
C6_ShortHistoryIsRejected ==
    (op.name = "check_ma_trend" /\ Len(Called) < 31) => ret = Pair(FALSE, None)

\* C6 amended: check_ma_trend returns exactly (False, None), caching nothing,
\* when the history is empty or the fetch raises; with 1..30 bars it returns
\* (isPositive, last bar) and caches it, isPositive being False below 22 bars.
C6_OnlyEmptyHistoryIsRejected ==
    (op.name = "check_ma_trend" /\ Len(Called) < 31) =>
        CASE op.note = "raise" \/ (op.note = "miss" /\ Len(Called) = 0) ->
                 /\ ret = Pair(FALSE, None)
                 /\ op.sym \notin DOMAIN ma_trend_cache
          [] op.note = "miss" /\ Len(Called) > 0 ->
                 /\ ret.latest = Some(LastBar)
                 /\ Len(Called) < 22 => ~ret.pos
                 /\ op.sym \in DOMAIN ma_trend_cache
                 /\ ma_trend_cache[op.sym] = ret
          [] OTHER -> ret = ma_trend_cache[op.sym]

\* a history of 22..30 bars classified positive, with its last bar
C6_Witness ==
    /\ op = Op("check_ma_trend", TrendSymbol, "miss")
    /\ Len(Called) \in 22..30
    /\ ret.pos
    /\ ret.latest = Some(LastBar)

\* The claim's definitions written out on the closes c[1..L], L >= 31.  The
\* n-bar average at bar i is S(i, n) / n with S the sum of c[i-n+1..i], and its
\* slope at i is (c[i] - c[i-n]) / n.
RECURSIVE WindowSum(_, _, _)
WindowSum(c, i, n) == IF n = 0 THEN 0 ELSE c[i] + WindowSum(c, i - 1, n - 1)

\* n times the slope of the n-bar average, k bars before the latest
SlopeTimes(c, n, k) == c[Len(c) - k] - c[Len(c) - k - n]

\* latest slope > 0, mean of the two slopes before it <= 0, for MA5, MA10, MA20
TurningUpStated(c) ==
    \A n \in {5, 10, 20} :
        /\ SlopeTimes(c, n, 0) > 0
        /\ SlopeTimes(c, n, 1) + SlopeTimes(c, n, 2) <= 0

\* MA5 > MA10 > MA20 > MA30 at the latest bar, the four latest slopes > 0
BullishStated(c) ==
    LET S(n) == WindowSum(c, Len(c), n)
    IN /\ S(5) * 10 > S(10) * 5
       /\ S(10) * 20 > S(20) * 10
       /\ S(20) * 30 > S(30) * 20
       /\ \A n \in {5, 10, 20, 30} : SlopeTimes(c, n, 0) > 0

StatedCloses == [i \in 1..Len(Called) |-> Called[i].close]

\* C7: with 31 bars or more, a computing call of check_ma_trend returns
\* isPositive = turning-up or bullish, as the claim defines the two, together
\* with the last bar.
C7_PositiveIsTurningUpOrBullish ==
    (op = Op("check_ma_trend", TrendSymbol, "miss") /\ Len(Called) >= 31) =>
        /\ ret.pos <=> (TurningUpStated(StatedCloses) \/ BullishStated(StatedCloses))
        /\ ret.latest = Some(LastBar)

\* a rising history of 31 bars or more, positive as bullish and not as turning up
C7_Witness ==
    /\ op = Op("check_ma_trend", TrendSymbol, "miss")
    /\ Len(Called) >= 31
    /\ ret.pos
    /\ BullishStated(StatedCloses)
    /\ ~TurningUpStated(StatedCloses)

\* positive as turning up and not as bullish; and a history that is neither
C7_TurningUpReached ==
    /\ op = Op("check_ma_trend", TrendSymbol, "miss")
    /\ Len(Called) >= 31
    /\ ret.pos
    /\ TurningUpStated(StatedCloses)
    /\ ~BullishStated(StatedCloses)

C7_NegativeReached ==
    /\ op = Op("check_ma_trend", TrendSymbol, "miss")
    /\ Len(Called) >= 31
    /\ ~ret.pos
    /\ \E n \in {5, 10, 20} : SlopeTimes(StatedCloses, n, 0) > 0

----------------------------------------------------------------------------
(* check_vol_price_up: claim C8, specification SpecVolPrice *)

\* from one bar to the next, close and volume each fall, stay or rise
Moves == {-1, 0, 1} \X {-1, 0, 1}

\* the series that starts at close 9, volume 9 and follows the moves m
RECURSIVE Walk(_, _, _, _)
Walk(m, i, c, v) ==
    IF i > Len(m) THEN <<>>
    ELSE <<Bar(Len(m) - i + 1, c + m[i][1], v + m[i][2])>>
            \o Walk(m, i + 1, c + m[i][1], v + m[i][2])

SeriesAlong(m) == <<Bar(Len(m) + 1, 9, 9)>> \o Walk(m, 1, 9, 9)

\* check_vol_price_up(stock_code, hist_data, days) called on the history of
\* TrendSymbol
CheckVolPriceUp ==
    /\ pc = "idle"
    /\ \E days \in 0..MaxVolBars :
         ret' = [days |-> days, result |-> check_vol_price_up(hist[TrendSymbol], days)]
    /\ op' = Op("check_vol_price_up", TrendSymbol, "-")
    /\ UNCHANGED <<ma_trend_cache, hist, minute, index, sectors, stock_flow, snapshot, crit, pc, fetches, computes, edits>>

\* one symbol with a history of 0..MaxVolBars bars
InitVolPrice ==
    /\ ma_trend_cache = EmptyCache
    /\ \/ hist = [s \in Symbols |-> <<>>]
       \/ \E L \in 1..MaxVolBars : \E m \in [1..(L - 1) -> Moves] :
            hist = [s \in Symbols |-> IF s = TrendSymbol THEN SeriesAlong(AsSeq(m)) ELSE <<>>]
    /\ minute = MinuteA
    /\ index = IndexA
    /\ sectors = SectorsA
    /\ stock_flow = StockFlowA
    /\ snapshot = SnapshotA
    /\ crit = InitialWidgets
    /\ edits = 0
    /\ pc = "idle"
    /\ op = Op("init", "-", "-")
    /\ ret = None
    /\ fetches = Zero
    /\ computes = Zero

NextVolPrice == CheckVolPriceUp

SpecVolPrice == InitVolPrice /\ [][NextVolPrice]_vars

\* close and volume both strictly higher on the bar k-1 before the latest than
\* on the bar before it
PairRises(h, k) ==
    /\ h[Len(h) - k + 1].close > h[Len(h) - k].close
    /\ h[Len(h) - k + 1].volume > h[Len(h) - k].volume

\* C8: check_vol_price_up(series, days) is True iff the series has at least
\* days+1 bars and each of the latest `days` day-pairs has close and volume
\* strictly higher than the bar before; so it is False with fewer bars and
\* False when one pair has an equal or lower close or volume.
C8_VolPriceUpIffAllPairsRise ==
    op.name = "check_vol_price_up" =>
        /\ ret.result <=> /\ Len(Called) >= ret.days + 1
                          /\ \A k \in 1..ret.days : PairRises(Called, k)
        /\ Len(Called) < ret.days + 1 => ~ret.result
        /\ \A k \in 1..ret.days :
              (Len(Called) >= ret.days + 1 /\
                 (Called[Len(Called) - k + 1].close <= Called[Len(Called) - k].close \/
                  Called[Len(Called) - k + 1].volume <= Called[Len(Called) - k].volume))
              => ~ret.result

\* days = 3 on four bars that rise in close and volume three times
C8_Witness ==
    /\ op.name = "check_vol_price_up"
    /\ ret.days = 3
    /\ Len(Called) = 4
    /\ ret.result
    /\ \A k \in 1..3 : PairRises(Called, k)

\* days = 3 on four bars whose oldest pair only keeps its volume
C8_BreakReached ==
    /\ op.name = "check_vol_price_up"
    /\ ret.days = 3
    /\ Len(Called) = 4
    /\ ~ret.result
    /\ PairRises(Called, 1) /\ PairRises(Called, 2)
    /\ Called[2].close > Called[1].close /\ Called[2].volume = Called[1].volume

\* the filter widgets and the provider's snapshot, histories fixed
InitFilter ==
    /\ ma_trend_cache = EmptyCache
    /\ hist = FilterHists
    /\ minute = MinuteA
    /\ index = IndexA
    /\ sectors = SectorsA
    /\ stock_flow = StockFlowA
    /\ snapshot \in Snapshots
    /\ crit = InitialWidgets
    /\ pc = "idle"
    /\ op = Op("init", "-", "-")
    /\ ret = None
    /\ fetches = Zero
    /\ computes = Zero
    /\ edits = 0

NextFilter ==
    \/ SetWidget(DOMAIN InitialWidgets)
    \/ ClearFilterConditions
    \/ SetDefaultConditions
    \/ ApplyFilter

SpecFilter == InitFilter /\ [][NextFilter]_vars

----------------------------------------------------------------------------
(* The range stages of filter_stocks: claims C9 and C10, specification SpecFilter *)

\* apply_filter ran last and its snapshot fetch succeeded
Filtered == op.name = "apply_filter" /\ op.note = "ok"

\* min > max on one of the five ranges
SomeRangeInverted(c) ==
    \/ c.turnover_min > c.turnover_max
    \/ c.price_change_min > c.price_change_max
    \/ c.volume_ratio_min > c.volume_ratio_max
    \/ c.price_min > c.price_max
    \/ c.market_cap_min > c.market_cap_max

\* C9 as stated: with min > max on any one range filter_stocks returns an empty
\* set, whatever the snapshot and the other criteria.
C9_InvertedRangeGivesEmpty ==
    (Filtered /\ SomeRangeInverted(crit) /\ ret.filtered # None)
        => ret.filtered = Some(<<>>)

\* min > max on a range whose upper bound the code applies
AppliedRangeInverted(c) ==
    \/ c.turnover_min > c.turnover_max
    \/ c.price_change_min > c.price_change_max
    \/ (c.volume_ratio_max > 0 /\ c.volume_ratio_min > c.volume_ratio_max)
    \/ c.price_min > c.price_max
    \/ c.market_cap_min > c.market_cap_max

\* C9 amended: with min > max on turnover, percent change, price or market cap,
\* or on volume ratio with max > 0, filter_stocks returns an empty set once the
\* snapshot is fetched, whatever the snapshot and the other criteria, and so the
\* same result every time; no later stage fetches or raises on the empty set.
C9_AppliedInvertedRangeGivesEmpty ==
    (Filtered /\ AppliedRangeInverted(crit))
        => /\ ret.filtered = Some(<<>>)
           /\ ret.signals = Some(<<>>)

\* turnover min > max emptied a snapshot that passes once the upper bound is
\* widened, other stages being enabled
C9_Witness ==
    /\ Filtered
    /\ crit.turnover_min > crit.turnover_max
    /\ crit.remove_green
    /\ ret.filtered = Some(<<>>)
    /\ filter_stocks("ok", snapshot, [crit EXCEPT !.turnover_max = 100], hist, minute, {})
          \notin {None, Some(<<>>)}

\* volume ratio min > max > 0 emptied the snapshot
C9_VolumeRatioReached ==
    /\ Filtered
    /\ crit.volume_ratio_max > 0
    /\ crit.volume_ratio_min > crit.volume_ratio_max
    /\ ~SomeRangeInverted([crit EXCEPT !.volume_ratio_min = 0])
    /\ ret.filtered = Some(<<>>)

\* the stages after the ranges are all switched off
OnlyRanges(c) ==
    /\ ~c.remove_green /\ ~c.remove_limit_up /\ ~c.volume_increase
    /\ ~TechnicalOn(c) /\ ~LimitUpOn(c)
    /\ c.hot_stocks_n = 0 /\ c.top_n = 0

\* value within [min, max], max <= 0 read as no upper bound
WithinOpen(x, min, max) == x >= min /\ (max > 0 => x <= max)

KeptAsStated(row, c) ==
    /\ WithinOpen(row.turnover, c.turnover_min, c.turnover_max)
    /\ WithinOpen(row.pct, c.price_change_min, c.price_change_max)
    /\ WithinOpen(row.volume_ratio, c.volume_ratio_min, c.volume_ratio_max)
    /\ WithinOpen(row.price, c.price_min, c.price_max)
    /\ WithinOpen(row.total_cap, c.market_cap_min * 10, c.market_cap_max * 10)

\* C10 as stated: on each of the five ranges a max <= 0 is no upper bound, so
\* with the other stages off a row that meets every min bound and every
\* positive max bound is in the result.
C10_NonPositiveMaxIsUnbounded ==
    (Filtered /\ ret.filtered # None /\ OnlyRanges(crit))
        => \A i \in Indices(snapshot) :
              KeptAsStated(snapshot[i], crit)
                  => \E j \in Indices(ret.filtered[1]) : ret.filtered[1][j] = snapshot[i]

----------------------------------------------------------------------------
(* The technical block of filter_stocks: specification SpecTechnical *)

\* daily histories for the technical block: none, one bar, two bars, twelve,
\* nineteen and twenty bars ending in a jump, 22 flat bars, 22 bars ending in a
\* jump, 22 bars ending in a dip and a jump
TechHists ==
    {<<>>, SeriesOf(<<7>>), SeriesOf(<<7, 8>>),
     SeriesOf(TrendCloses(12, 0, <<0, 0, 6>>)),
     SeriesOf(TrendCloses(19, 0, <<0, 0, 6>>)),
     SeriesOf(TrendCloses(20, 0, <<0, 0, 6>>)),
     SeriesOf(TrendCloses(22, 0, <<0, 0, 0>>)),
     SeriesOf(TrendCloses(22, 0, <<0, 0, 6>>)),
     SeriesOf(TrendCloses(22, 0, <<0, -2, 6>>))}

\* the ranges wide open, every later stage off
OpenWidgets == [ClearedWidgets EXCEPT !.turnover_max = 100]

\* the three technical check boxes set by hand, the histories of the two
\* main-board codes drawn from TechHists
InitTechnical ==
    /\ ma_trend_cache = EmptyCache
    /\ \E h1 \in TechHists : \E h2 \in TechHists :
          hist = [s \in Symbols |->
                    IF s = "600001" THEN h1 ELSE IF s = "000002" THEN h2 ELSE <<>>]
    /\ minute = MinuteA
    /\ index = IndexA
    /\ sectors = SectorsA
    /\ stock_flow = StockFlowA
    /\ snapshot = SnapshotA
    /\ \E a \in BOOLEAN : \E m \in BOOLEAN : \E k \in BOOLEAN :
          crit = [OpenWidgets EXCEPT !.ma_alignment = a, !.macd_golden = m, !.kdj_golden = k]
    /\ edits = 0
    /\ pc = "idle"
    /\ op = Op("init", "-", "-")
    /\ ret = None
    /\ fetches = Zero
    /\ computes = Zero

NextTechnical == ApplyFilter

SpecTechnical == InitTechnical /\ [][NextTechnical]_vars

----------------------------------------------------------------------------
(* The hot-stocks and limit-up-count stages: specification SpecLate *)

\* a daily bar with the given percent change (tenths of a percent)
PctBar(age, pct) == [Bar(age, 7, 1) EXCEPT !.pct = pct]

\* daily histories by their limit-up sessions: no bars; none (one just below
\* 9.5%); one; one 45 days old and one today at exactly 9.5%; two recent
LimitHists ==
    {<<>>,
     <<PctBar(1, 94), PctBar(0, 0)>>,
     <<PctBar(1, 0), PctBar(0, 100)>>,
     <<PctBar(45, 100), PctBar(3, -20), PctBar(0, 95)>>,
     <<PctBar(1, 100), PctBar(0, 110)>>}

\* a snapshot whose largest traded amount has the largest turnover, the other
\* two amounts equal
SnapshotC ==
    <<Row("000002", 3, 100, 20, 10, 800, 7, "bank"),
      Row("600001", 4, 50, 50, 20, 1000, 9, "bank"),
      Row("300003", 9, 120, 20, 30, 2000, 7, "tech")>>

InitLate ==
    /\ ma_trend_cache = EmptyCache
    /\ \E h1 \in LimitHists : \E h2 \in LimitHists :
          hist = [s \in Symbols |->
                    IF s = "600001" THEN h1 ELSE IF s = "000002" THEN h2
                    ELSE <<PctBar(1, 0), PctBar(0, 100)>>]
    /\ minute = MinuteA
    /\ index = IndexA
    /\ sectors = SectorsA
    /\ stock_flow = StockFlowA
    /\ snapshot \in {SnapshotA, SnapshotC}
    /\ \E t \in {30, 100} : \E n \in 0..2 : \E mo \in 0..2 : \E k \in 0..2 :
          crit = [OpenWidgets EXCEPT !.turnover_max = t, !.hot_stocks_n = n,
                                     !.months = mo, !.limit_up_times = k]
    /\ edits = 0
    /\ pc = "idle"
    /\ op = Op("init", "-", "-")
    /\ ret = None
    /\ fetches = Zero
    /\ computes = Zero

NextLate == ApplyFilter

SpecLate == InitLate /\ [][NextLate]_vars

----------------------------------------------------------------------------
(* analyze_trading_signals on one row: specification SpecSignals *)

\* 120-day histories: none, flat, and closes from 2 to 12 after an older bar
SignalHists ==
    {<<>>, <<Bar(1, 7, 1), Bar(0, 7, 1)>>,
     <<Bar(130, 30, 1), Bar(1, 2, 1), Bar(0, 12, 1)>>}

\* one row with its fields on both sides of the scoring thresholds
InitSignals ==
    /\ ma_trend_cache = EmptyCache
    /\ \E h \in SignalHists :
          hist = [s \in Symbols |-> IF s = "600001" THEN h ELSE <<>>]
    /\ minute = MinuteA
    /\ index = IndexA
    /\ sectors = SectorsA
    /\ stock_flow = StockFlowA
    /\ \E price \in {4, 5, 7, 9, 10} : \E pct \in {20, 21, 50, 51} :
       \E vr \in {20, 21} : \E turnover \in {50, 51} :
          snapshot = <<Row("600001", price, pct, turnover, vr, 1000, 9, "bank")>>
    /\ crit = OpenWidgets
    /\ edits = 0
    /\ pc = "idle"
    /\ op = Op("init", "-", "-")
    /\ ret = None
    /\ fetches = Zero
    /\ computes = Zero

NextSignals == ApplyFilter

SpecSignals == InitSignals /\ [][NextSignals]_vars

----------------------------------------------------------------------------
(* analyze_limit_up_stocks: specifications SpecLimitUp and SpecScore *)

\* 30-day histories by their percent changes, oldest first
StreakHists ==
    {<<>>, <<PctBar(0, 100)>>, <<PctBar(0, 94)>>,
     <<PctBar(1, 100), PctBar(0, 20)>>,
     <<PctBar(1, 95), PctBar(0, 100)>>,
     <<PctBar(2, 0), PctBar(1, 100), PctBar(0, 100)>>,
     <<PctBar(3, 100), PctBar(2, 50), PctBar(1, 100), PctBar(0, 101)>>,
     <<PctBar(45, 100), PctBar(2, 100), PctBar(1, 100), PctBar(0, 100)>>}

\* two limit-up rows of the main board and one of another board
LimitUpSnapshot ==
    <<Row("600001", 4, 100, 50, 20, 1000, 9, "bank"),
      Row("300003", 9, 200, 80, 30, 2000, 7, "tech"),
      Row("000002", 3, 95, 20, 10, 800, 5, "bank")>>

InitLimitUp ==
    /\ ma_trend_cache = EmptyCache
    /\ \E h1 \in StreakHists : \E h2 \in StreakHists :
          hist = [s \in Symbols |->
                    IF s = "600001" THEN h1 ELSE IF s = "000002" THEN h2
                    ELSE <<PctBar(0, 200)>>]
    /\ minute = MinuteA
    /\ index = IndexA
    /\ sectors = SectorsA
    /\ stock_flow = StockFlowA
    /\ snapshot = LimitUpSnapshot
    /\ crit = InitialWidgets
    /\ edits = 0
    /\ pc = "idle"
    /\ op = Op("init", "-", "-")
    /\ ret = None
    /\ fetches = Zero
    /\ computes = Zero

NextLimitUp == AnalyzeLimitUpStocks

SpecLimitUp == InitLimitUp /\ [][NextLimitUp]_vars

\* the factor values of one stock are at hand
InitScore ==
    /\ ma_trend_cache = EmptyCache
    /\ hist = [s \in Symbols |-> <<>>]
    /\ minute = MinuteA
    /\ index = IndexA
    /\ sectors = SectorsA
    /\ stock_flow = StockFlowA
    /\ snapshot = LimitUpSnapshot
    /\ crit = InitialWidgets
    /\ edits = 0
    /\ pc = "idle"
    /\ \E f \in FactorInputs :
          op = [name |-> "factors", sym |-> "-", note |-> "-", factors |-> f]
    /\ ret = None
    /\ fetches = Zero
    /\ computes = Zero

NextScore == ScoreLimitUpStock

SpecScore == InitScore /\ [][NextScore]_vars

----------------------------------------------------------------------------
(* analyze_market_trend: specification SpecMarket *)

InitMarket ==
    /\ ma_trend_cache = EmptyCache
    /\ hist = [s \in Symbols |-> <<>>]
    /\ minute = MinuteA
    /\ index \in IndexFamily
    /\ sectors = SectorsA
    /\ stock_flow = StockFlowA
    /\ snapshot = SnapshotA
    /\ crit = InitialWidgets
    /\ edits = 0
    /\ pc = "idle"
    /\ op = Op("init", "-", "-")
    /\ ret = None
    /\ fetches = Zero
    /\ computes = Zero

NextMarket == AnalyzeMarketTrend

SpecMarket == InitMarket /\ [][NextMarket]_vars

----------------------------------------------------------------------------
(* convert_flow_value: specification SpecConvert *)

\* longest text of the exhaustive family
MaxText == 4

\* the characters of the exhaustive family: digit, point, separator, minus,
\* blank, 万 and a letter
FlowAlphabet == {"1", ".", ",", "-", " ", Wan, "a"}

\* texts made of padding, sign, unit and number parts, in the order of a
\* money-flow cell and with parts out of place
ComposedTexts ==
    {pad \o sign \o lead \o int \o frac \o unit \o trail :
        pad \in {<<>>, <<" ">>},
        sign \in {<<>>, <<"-">>, <<"-", "-">>, <<"+">>, <<"-", " ">>},
        lead \in {<<>>, <<Yi>>},
        int \in {<<>>, <<"1">>, <<"2", "0">>, <<"1", ",", "5">>},
        frac \in {<<>>, <<".">>, <<".", "5">>, <<".", "5", ".">>},
        unit \in {<<>>, <<Yi>>, <<Wan>>, <<Yi, Wan>>, <<" ", Yi>>},
        trail \in {<<>>, <<" ">>}}

\* "1.5亿", "-2000万", "abc"
ExampleYi == <<"1", ".", "5", Yi>>
ExampleWan == <<"-", "2", "0", "0", "0", Wan>>
ExampleAbc == <<"a", "b", "c">>

\* values that are not texts: an int, a float, NaN, None
OtherValues == {NumValue(Num(5)), NumValue(Rat(-3, 2)), NumValue(NaN), OtherValue}

InitConvert ==
    /\ ma_trend_cache = EmptyCache
    /\ hist = [s \in Symbols |-> <<>>]
    /\ minute = MinuteA
    /\ index = IndexA
    /\ sectors = SectorsA
    /\ stock_flow = StockFlowA
    /\ snapshot = SnapshotA
    /\ crit = InitialWidgets
    /\ edits = 0
    /\ pc = "idle"
    /\ \/ \E n \in 0..MaxText : \E t \in [1..n -> FlowAlphabet] :
              op = [name |-> "value", value |-> StrValue(AsSeq(t))]
       \/ \E t \in ComposedTexts \cup {ExampleYi, ExampleWan, ExampleAbc} :
              op = [name |-> "value", value |-> StrValue(t)]
       \/ \E v \in OtherValues : op = [name |-> "value", value |-> v]
    /\ ret = None
    /\ fetches = Zero
    /\ computes = Zero

NextConvert == ConvertFlowValue

SpecConvert == InitConvert /\ [][NextConvert]_vars

----------------------------------------------------------------------------
(* analyze_market_trend, sector analysis: specification SpecSectors *)

\* boards analysed in one run
MaxSectors == 2

\* constituents: the fetch raises, none, and means of 3, exactly 2, 1,
\* 2.50333..., 2.5025 and NaN
ConsFamily ==
    {None, Some(<<>>), Some(<<Pct(250), Pct(350)>>), Some(<<Pct(100), Pct(300)>>),
     Some(<<Pct(100)>>), Some(<<Pct(250), Pct(251), Pct(250)>>),
     Some(<<Pct(251), Pct(250), Pct(250), Pct(250)>>), Some(<<NaN>>)}

\* fund-flow rows: none, "1.5亿", 6e7, exactly 5e7, 1, a first field of 0 with
\* "2亿" in the second, "-1亿", "abc"
RowFamily ==
    {None, Some(<<StrValue(ExampleYi)>>), Some(<<NumValue(Num(60000000))>>),
     Some(<<NumValue(Num(50000000))>>), Some(<<NumValue(Num(1))>>),
     Some(<<NumValue(Num(0)), StrValue(<<"2", Yi>>)>>),
     Some(<<StrValue(<<"-", "1", Yi>>)>>), Some(<<StrValue(ExampleAbc)>>)}

\* the boards are named in order (板块名称.unique() has no name twice)
SectorNames == <<"A", "B", "C", "D">>


InitSectors ==
    /\ ma_trend_cache = EmptyCache
    /\ hist = [s \in Symbols |-> <<>>]
    /\ minute = MinuteA
    /\ index = IndexA
    /\ \E n \in 0..MaxSectors : \E cons \in [1..n -> ConsFamily], row \in [1..n -> RowFamily] :
          sectors = AsSeq([i \in 1..n |-> Sector(SectorNames[i], cons[i], row[i])])
    /\ stock_flow = StockFlowA
    /\ snapshot = SnapshotA
    /\ crit = InitialWidgets
    /\ edits = 0
    /\ pc = "idle"
    /\ op = Op("init", "-", "-")
    /\ ret = None
    /\ fetches = Zero
    /\ computes = Zero

NextSectors == AnalyzeMarketTrend

SpecSectors == InitSectors /\ [][NextSectors]_vars

----------------------------------------------------------------------------
(* analyze_money_flow: specification SpecFlow *)

\* rows of the ranking in one run
MaxFlowRows == 3

\* the cells of a row: 6e7, exactly 5e7, 2e7, exactly 1e7, 2e6, exactly 1e6, 5e5,
\* -6e7, "-2000万", "1.5亿", NaN, and a first cell that cannot be read ("-")
\* before a share of 7 percent
CellFamily ==
    {<<NumValue(Num(60000000))>>, <<NumValue(Num(50000000))>>, <<NumValue(Num(20000000))>>,
     <<NumValue(Num(10000000))>>, <<NumValue(Num(2000000))>>, <<NumValue(Num(1000000))>>,
     <<NumValue(Num(500000))>>, <<NumValue(Num(-60000000))>>, <<StrValue(ExampleWan)>>,
     <<StrValue(ExampleYi)>>, <<NumValue(NaN)>>, <<StrValue(<<"-">>), NumValue(Num(7))>>}

\* the codes of the rows; the second row may lack its 代码
FlowCodes == <<"600001", "000002", "300003", "600004", "000005">>

InitFlow ==
    /\ ma_trend_cache = EmptyCache
    /\ hist = [s \in Symbols |-> <<>>]
    /\ minute = MinuteA
    /\ index = IndexA
    /\ sectors = SectorsA
    /\ \E n \in 0..MaxFlowRows : \E cells \in [1..n -> CellFamily], nameless \in {0, 2} :
          stock_flow = AsSeq([i \in 1..n |->
                                 FlowRow(IF i = nameless THEN "" ELSE FlowCodes[i], cells[i])])
    /\ snapshot = SnapshotA
    /\ crit = InitialWidgets
    /\ edits = 0
    /\ pc = "idle"
    /\ op = Op("init", "-", "-")
    /\ ret = None
    /\ fetches = Zero
    /\ computes = Zero

NextFlow == AnalyzeMoneyFlow

SpecFlow == InitFlow /\ [][NextFlow]_vars

----------------------------------------------------------------------------
(* The two scorings side by side: specification SpecScoring *)

\* factor values at which every branch of every factor is taken
ScoringInputs ==
    [streak       : {0, 2, 3},
     volume_ratio : {5, 40},
     ma           : {[state |-> "bull", slope |-> Num(3)], [state |-> "bear", slope |-> NaN]},
     rsi          : {NaN, Num(20), Num(60), Num(90)},
     macd         : {[golden |-> TRUE, above |-> TRUE, death |-> FALSE],
                     [golden |-> FALSE, above |-> FALSE, death |-> TRUE]},
     flow         : {None, Some(200000000), Some(-1), Some(-200000000)},
     position     : {Num(20), Num(80)},
     volume       : {[latest |-> 4, mean |-> Num(1)], [latest |-> 1, mean |-> Num(4)]},
     turnover     : {20, 180}]

\* a row with its history, or the factor values of a limit-up instrument
InitScoring ==
    \/ InitSignals
    \/ /\ ma_trend_cache = EmptyCache
       /\ hist = [s \in Symbols |-> <<>>]
       /\ minute = MinuteA
       /\ index = IndexA
       /\ sectors = SectorsA
       /\ stock_flow = StockFlowA
       /\ snapshot = <<>>
       /\ crit = InitialWidgets
       /\ edits = 0
       /\ pc = "idle"
       /\ \E f \in ScoringInputs :
             op = [name |-> "factors", sym |-> "-", note |-> "-", factors |-> f]
       /\ ret = None
       /\ fetches = Zero
       /\ computes = Zero

NextScoring == ApplyFilter \/ ScoreLimitUpStock

SpecScoring == InitScoring /\ [][NextScoring]_vars

----------------------------------------------------------------------------
(* Moving averages: specification SpecMa *)

\* bars of the longest series averaged
MaxMaBars == 62

\* the windows of lines 857-860 and 1925-1928
MaWindows == {5, 10, 20, 30, 60}

\* closes that rise bar by bar, that rise and fall back, and that stay
MaCloses(L, shape) ==
    AsSeq([i \in 1..L |-> IF shape = "ramp" THEN 10 + i
                           ELSE IF shape = "saw" THEN 10 + 4 * (i % 3)
                           ELSE 10])

InitMa ==
    /\ ma_trend_cache = EmptyCache
    /\ hist = [s \in Symbols |-> <<>>]
    /\ minute = MinuteA
    /\ index = IndexA
    /\ sectors = SectorsA
    /\ stock_flow = StockFlowA
    /\ snapshot = SnapshotA
    /\ crit = InitialWidgets
    /\ edits = 0
    /\ pc = "idle"
    /\ \E L \in 0..MaxMaBars, shape \in {"ramp", "saw", "flat"}, n \in MaWindows :
          op = [name |-> "series", closes |-> MaCloses(L, shape), window |-> n]
    /\ ret = None
    /\ fetches = Zero
    /\ computes = Zero

NextMa == RollingMeanOf

SpecMa == InitMa /\ [][NextMa]_vars

----------------------------------------------------------------------------
(* The stages of filter_stocks: claims C11-C15 *)

\* the rows apply_filter got back
Out == ret.filtered[1]

\* the range predicates the criteria switch on
InRanges(row, c) ==
    /\ row.turnover >= c.turnover_min /\ row.turnover <= c.turnover_max
    /\ row.pct >= c.price_change_min /\ row.pct <= c.price_change_max
    /\ row.volume_ratio >= c.volume_ratio_min
    /\ c.volume_ratio_max > 0 => row.volume_ratio <= c.volume_ratio_max
    /\ row.price >= c.price_min /\ row.price <= c.price_max
    /\ row.total_cap >= c.market_cap_min * 10 /\ row.total_cap <= c.market_cap_max * 10

\* the verdict of stages 1-9 on one row: they test rows one by one
PassesRowStages(row, c) ==
    /\ InRanges(row, c)
    /\ c.remove_green => row.pct > 0
    /\ c.remove_limit_up => row.pct < 95
    /\ c.volume_increase => VolumeIncreasing(minute[row.code])
    /\ TechnicalOn(c) => TechnicalCheck(c, FetchDaily(hist[row.code], 60)) = "keep"

RowSurvivors == RowsAt(snapshot, {i \in Indices(snapshot) : PassesRowStages(snapshot[i], crit)}, 1)

\* C11: filter_stocks applies turnover, percent change, volume ratio, price,
\* market cap, remove-green, remove-limit-up, intraday volume and the technical
\* block, then hot stocks, then industry leaders, then the limit-up count, each
\* only removing rows: the result is a subset of the snapshot, every survivor
\* is within the ranges, above 0 with remove-green and below 9.5 with
\* remove-limit-up.
C11_StagesNarrowInOrder ==
    (Filtered /\ ret.filtered # None) =>
        /\ \A j \in Indices(Out) : \E i \in Indices(snapshot) : snapshot[i] = Out[j]
        /\ \A j \in Indices(Out) :
              /\ InRanges(Out[j], crit)
              /\ crit.remove_green => Out[j].pct > 0
              /\ crit.remove_limit_up => Out[j].pct < 95
        /\ Out = LimitUpStage(IndustryLeadersStage(HotStocksStage(RowSurvivors, crit),
                                                   crit), crit, hist)

\* the hot-stocks cut ran before the limit-up count: nothing is left, though the
\* count taken first would have left a row for the cut
C11_Witness ==
    /\ Filtered
    /\ crit.hot_stocks_n > 0 /\ LimitUpOn(crit) /\ crit.remove_green
    /\ ret.filtered = Some(<<>>)
    /\ HotStocksStage(LimitUpStage(RowSurvivors, crit, hist), crit) # <<>>


\* the 60-day history the technical block fetches for a row
TechHistory(row) == FetchDaily(hist[row.code], 60)

\* the sub-checks as stated, on a history with data
MaPasses(h) == ~MaAlignmentFails(Closes(h))
MacdPasses(h) == ~MacdGoldenFails(Closes(h))
KdjPasses(h) == ~KdjGoldenFails(h)

EnabledSubChecksPass(c, h) ==
    /\ c.ma_alignment => MaPasses(h)
    /\ c.macd_golden => MacdPasses(h)
    /\ c.kdj_golden => KdjPasses(h)

\* the rows that reach the technical block, and the stages after it switched off
EntersTechnical(row, c) ==
    /\ InRanges(row, c)
    /\ c.remove_green => row.pct > 0
    /\ c.remove_limit_up => row.pct < 95
    /\ c.volume_increase => VolumeIncreasing(minute[row.code])

TechnicalIsLast(c) == TechnicalOn(c) /\ c.hot_stocks_n = 0 /\ c.top_n = 0 /\ ~LimitUpOn(c)

\* apply_filter ran last, the snapshot fetch and every later fetch succeeded
FilteredNoRaise == Filtered /\ op.raising = {}

\* C12: in the technical block a candidate with an empty history survives, and
\* one with data survives iff every enabled sub-check passes on its history
\* (MA5 > MA10 > MA20; MACD over its signal today and not yesterday; K over D
\* today and not yesterday); nothing else drops a candidate.
C12_TechnicalBlockDropsOnlyFailures ==
    (FilteredNoRaise /\ TechnicalIsLast(crit)) =>
        /\ ret.filtered # None
        /\ \A i \in Indices(snapshot) :
              EntersTechnical(snapshot[i], crit) =>
                 ((\E j \in Indices(Out) : Out[j] = snapshot[i])
                    <=> \/ TechHistory(snapshot[i]) = <<>>
                        \/ EnabledSubChecksPass(crit, TechHistory(snapshot[i])))

\* a candidate with data passed MACD and KDJ and stands in the frame with the
\* candidate without history
C12_Witness ==
    /\ FilteredNoRaise /\ TechnicalIsLast(crit)
    /\ crit.macd_golden /\ crit.kdj_golden
    /\ ret.filtered # None
    /\ Len(Out) = 2
    /\ \E j \in Indices(Out) : TechHistory(Out[j]) # <<>>


\* the records analyze_trading_signals returned
Signals == ret.signals[1]

\* C13: in a batch a failure for one instrument skips only that instrument:
\* after a successful snapshot fetch filter_stocks returns a frame whatever
\* history fetches raise, and analyze_trading_signals scores every row of it
\* whose own fetch did not raise.
C13_FailureSkipsOnlyThatInstrument ==
    Filtered =>
        /\ ret.filtered # None
        /\ \A j \in Indices(Out) :
              Out[j].code \notin op.raising2 =>
                 \E k \in Indices(Signals) : Signals[k].code = Out[j].code


\* the rows that reach the limit-up-count stage
BeforeLimitUp == IndustryLeadersStage(HotStocksStage(RowSurvivors, crit), crit)

\* the sessions of code's history in the trailing window with a change >= 9.5%
LimitUpSessions(code) ==
    {i \in 1..Len(hist[code]) :
        hist[code][i].age <= 30 * crit.months /\ hist[code][i].pct >= 95}

\* C14: with count > 0 and months > 0 the limit-up-count stage keeps exactly
\* the candidates whose number of sessions with a change >= 9.5% in the
\* trailing window equals the count; more or fewer drops the candidate.
C14_ExactlyTheRequestedCount ==
    (FilteredNoRaise /\ LimitUpOn(crit)) =>
        /\ ret.filtered # None
        /\ Out = RowsAt(BeforeLimitUp,
                        {i \in Indices(BeforeLimitUp) :
                            Cardinality(LimitUpSessions(BeforeLimitUp[i].code))
                               = crit.limit_up_times}, 1)

\* one candidate kept, one dropped with more sessions than requested
C14_Witness ==
    /\ FilteredNoRaise /\ LimitUpOn(crit)
    /\ ret.filtered # None
    /\ Out # <<>>
    /\ \E i \in Indices(BeforeLimitUp) :
          Cardinality(LimitUpSessions(BeforeLimitUp[i].code)) > crit.limit_up_times

\* a session outside the window is not counted: the candidate is kept with one
\* session of two
C14_WindowReached ==
    /\ FilteredNoRaise /\ LimitUpOn(crit)
    /\ ret.filtered # None
    /\ \E j \in Indices(Out) :
          LimitUpCount(hist[Out[j].code]) > crit.limit_up_times

\* the rows the hot-stocks stage dropped, when it is the last stage applied
DroppedByHot == {i \in Indices(RowSurvivors) :
                    \A j \in Indices(Out) : Out[j] # RowSurvivors[i]}

HotIsLast(c) == c.hot_stocks_n > 0 /\ c.top_n = 0 /\ ~LimitUpOn(c)

\* C15: with N > 0 the hot-stocks stage keeps the N largest traded amounts
\* among the survivors of the earlier stages: at most N rows remain, all of
\* them survivors, and every kept row's amount is at least every dropped row's.
C15_TopNAmongSurvivors ==
    /\ (Filtered /\ crit.hot_stocks_n > 0 /\ ret.filtered # None)
          => Len(Out) <= crit.hot_stocks_n
    /\ (FilteredNoRaise /\ HotIsLast(crit)) =>
          /\ ret.filtered # None
          /\ Len(Out) = Min({crit.hot_stocks_n, Len(RowSurvivors)})
          /\ \A j \in Indices(Out) : \E i \in Indices(RowSurvivors) : RowSurvivors[i] = Out[j]
          /\ \A j \in Indices(Out) : \A i \in DroppedByHot :
                Out[j].amount >= RowSurvivors[i].amount

\* the largest amount of the snapshot was dropped by an earlier stage, and the
\* stage cut the survivors down to N
C15_Witness ==
    /\ FilteredNoRaise /\ HotIsLast(crit)
    /\ ret.filtered # None
    /\ DroppedByHot # {}
    /\ \E i \in Indices(snapshot) :
          /\ \A j \in Indices(snapshot) : snapshot[i].amount >= snapshot[j].amount
          /\ ~PassesRowStages(snapshot[i], crit)


\* the closes of code's history in the 120 days get_price_position looks at
Closes120(code) == {hist[code][i].close : i \in {j \in 1..Len(hist[code]) : hist[code][j].age <= 120}}

\* the position is known: the fetch answered with bars that are not all equal
PositionKnown(row) ==
    /\ row.code \notin op.raising2
    /\ Closes120(row.code) # {}
    /\ Max(Closes120(row.code)) # Min(Closes120(row.code))

\* (price - min) / (max - min) * 100 below 30, above 70
PositionLow(row) ==
    /\ PositionKnown(row)
    /\ (row.price - Min(Closes120(row.code))) * 100
          < 30 * (Max(Closes120(row.code)) - Min(Closes120(row.code)))

PositionHigh(row) ==
    /\ PositionKnown(row)
    /\ (row.price - Min(Closes120(row.code))) * 100
          > 70 * (Max(Closes120(row.code)) - Min(Closes120(row.code)))

StatedRating(row) ==
    (IF row.pct > 50 THEN 2 ELSE IF row.pct > 20 THEN 1 ELSE 0)
    + (IF row.volume_ratio > 20 THEN 1 ELSE 0)
    + (IF row.turnover > 50 THEN 1 ELSE 0)
    + (IF PositionLow(row) THEN 2 ELSE 0)

StatedRisk(row) == IF PositionHigh(row) THEN 2 ELSE 0

StatedLabel(rating, risk) ==
    CASE rating >= 4 /\ risk <= 1 -> "buy"
      [] ~(rating >= 4 /\ risk <= 1) /\ rating >= 2 /\ risk <= 2 -> "watch"
      [] ~(rating >= 4 /\ risk <= 1) /\ ~(rating >= 2 /\ risk <= 2) /\ risk >= 3 -> "risk"
      [] OTHER -> "hold"

\* C16: analyze_trading_signals gives every row rating = (2 if change > 5,
\* else 1 if change > 2) + (1 if volume ratio > 2) + (1 if turnover > 5)
\* + (2 if the position is low), risk = 2 if the position is high, and the
\* first matching label of buy, watch, risk warning, hold.
C16_RatingRiskAndLabel ==
    (Filtered /\ ret.filtered # None) =>
        /\ Len(Signals) = Len(Out)
        /\ \A k \in Indices(Out) :
              /\ Signals[k].code = Out[k].code
              /\ Signals[k].rating = StatedRating(Out[k])
              /\ Signals[k].risk = StatedRisk(Out[k])
              /\ Signals[k].advice = StatedLabel(StatedRating(Out[k]), StatedRisk(Out[k]))

\* a row rated buy with every factor counted
C16_Witness ==
    /\ Filtered /\ ret.filtered # None /\ Out # <<>>
    /\ Out[1].pct > 50 /\ Out[1].volume_ratio > 20 /\ Out[1].turnover > 50
    /\ PositionLow(Out[1])
    /\ Signals[1].rating = 6 /\ Signals[1].advice = "buy"

\* a high position with rating 4: watch, not buy
C16_HighPositionReached ==
    /\ Filtered /\ ret.filtered # None /\ Out # <<>>
    /\ PositionHigh(Out[1])
    /\ Signals[1].rating = 4 /\ Signals[1].risk = 2 /\ Signals[1].advice = "watch"

\* the position exactly at 30 is neither low nor high, rating 1: hold
C16_HoldReached ==
    /\ Filtered /\ ret.filtered # None /\ Out # <<>>
    /\ PositionKnown(Out[1]) /\ ~PositionLow(Out[1]) /\ Out[1].price = 5
    /\ Signals[1].rating = 1 /\ Signals[1].advice = "hold"


\* a one-bar history is dropped by the MACD check, the candidates without
\* history survive
C12_OneBarReached ==
    /\ FilteredNoRaise /\ TechnicalIsLast(crit)
    /\ crit.macd_golden /\ ~crit.ma_alignment
    /\ Len(hist["000002"]) = 1 /\ hist["600001"] = <<>>
    /\ ret.filtered # None
    /\ Len(Out) = 2


\* analyze_limit_up_stocks ran last and its fetches before the loop answered
Analysed == op.name = "analyze_limit_up_stocks" /\ op.note = "ok"

\* the last n bars of code's 30-day history all have a change >= 9.5%
SuffixQualifies(code, n) ==
    /\ n <= Len(FetchDaily(hist[code], 30))
    /\ \A i \in 1..Len(FetchDaily(hist[code], 30)) :
          i > Len(FetchDaily(hist[code], 30)) - n => FetchDaily(hist[code], 30)[i].pct >= 95

\* C17: the streak of every analysed stock is the length of the longest suffix
\* of its history whose sessions all have a change >= 9.5%: 0 when the latest
\* session does not qualify, never more than the number of bars.
C17_StreakIsLongestQualifyingSuffix ==
    Analysed =>
        \A k \in Indices(ret) :
            /\ SuffixQualifies(ret[k].code, ret[k].streak)
            /\ ~SuffixQualifies(ret[k].code, ret[k].streak + 1)
            /\ ret[k].streak <= Len(FetchDaily(hist[ret[k].code], 30))
            /\ hist[ret[k].code][Len(hist[ret[k].code])].pct < 95 => ret[k].streak = 0

\* a streak of 2 that stops at a session below 9.5% with a limit-up before it,
\* and a streak of 0
C17_Witness ==
    /\ Analysed
    /\ Len(ret) = 2
    /\ ret[1].streak = 2 /\ LimitUpCount(hist[ret[1].code]) = 3
    /\ ret[2].streak = 0 /\ LimitUpCount(hist[ret[2].code]) = 1

\* the whole history qualifies
C17_WholeHistoryReached ==
    /\ Analysed
    /\ \E k \in Indices(ret) : ret[k].streak = Len(hist[ret[k].code]) /\ ret[k].streak = 2


\* a scoring run ended last, on the factor values op.factors
Scored == op.name = "score_limit_up"

\* the nine factors as stated: what each adds to the rating
StatedRatingTerms(f) ==
    <<IF f.streak >= 3 THEN 2 ELSE IF f.streak = 2 THEN 1 ELSE 0,
      IF f.volume_ratio > 30 THEN 2 ELSE IF f.volume_ratio > 20 THEN 1 ELSE 0,
      IF f.ma.state = "bull" THEN (IF RGt(f.ma.slope, Num(2)) THEN 2 ELSE 1) ELSE 0,
      IF RGt(f.rsi, Num(50)) /\ RLt(f.rsi, Num(70)) THEN 1 ELSE 0,
      IF f.macd.golden THEN 2 ELSE IF f.macd.above THEN 1 ELSE 0,
      IF f.flow # None /\ f.flow[1] > 100000000 THEN 2
         ELSE IF f.flow # None /\ f.flow[1] > 0 THEN 1 ELSE 0,
      IF RLt(f.position, Num(30)) THEN 2 ELSE 0,
      IF RGt(RDiv(Num(f.volume.latest), f.volume.mean), Num(3)) THEN 2
         ELSE IF RGt(RDiv(Num(f.volume.latest), f.volume.mean), Num(2)) THEN 1 ELSE 0,
      IF f.turnover > 150 THEN 2 ELSE IF f.turnover > 100 THEN 1 ELSE 0>>

\* and to the risk
StatedRiskTerms(f) ==
    <<IF f.streak >= 3 THEN 1 ELSE 0,
      IF f.volume_ratio < 8 THEN 1 ELSE 0,
      IF f.ma.state = "bear" THEN 1 ELSE 0,
      IF RGt(f.rsi, Num(80)) THEN 2 ELSE IF RLt(f.rsi, Num(30)) THEN 1 ELSE 0,
      IF ~f.macd.golden /\ ~f.macd.above /\ f.macd.death THEN 1 ELSE 0,
      IF f.flow # None /\ f.flow[1] < -100000000 THEN 2
         ELSE IF f.flow # None /\ f.flow[1] < 0 THEN 1 ELSE 0,
      IF RGt(f.position, Num(70)) THEN 2 ELSE 0,
      IF RLt(RDiv(Num(f.volume.latest), f.volume.mean), Rat(1, 2)) THEN 1 ELSE 0,
      IF f.turnover < 30 THEN 1 ELSE 0>>

RECURSIVE SumTerms(_, _)
SumTerms(ts, n) == IF n = 0 THEN 0 ELSE ts[n] + SumTerms(ts, n - 1)

\* the instrument of the example: streak 3, volume ratio 4, bullish averages
\* with slope 3%, RSI 60, fresh golden cross, sector inflow 2e8, position 20,
\* volume 4 times its mean, turnover 18%
IsExample(f) ==
    /\ f.streak = 3 /\ f.volume_ratio = 40
    /\ f.ma = [state |-> "bull", slope |-> Num(3)]
    /\ f.rsi = Num(60) /\ f.macd.golden
    /\ f.flow = Some(200000000) /\ f.position = Num(20)
    /\ f.volume = [latest |-> 4, mean |-> Num(1)] /\ f.turnover = 180

\* C18: rating and risk are the sums of the nine factors with the stated
\* thresholds, each factor adding at most one of its branches; the example
\* instrument gets rating >= 8, risk <= 1 and the label strong recommend.
C18_ScoresAreSumsOfNineFactors ==
    Scored =>
        /\ ret.rating = SumTerms(StatedRatingTerms(op.factors), 9)
        /\ ret.risk = SumTerms(StatedRiskTerms(op.factors), 9)
        /\ IsExample(op.factors) =>
              ret.rating >= 8 /\ ret.risk <= 1 /\ ret.label = "strong_recommend"

\* the example instrument was scored: rating 17, risk 1
C18_Witness ==
    /\ Scored /\ IsExample(op.factors)
    /\ ret.rating = 17 /\ ret.risk = 1 /\ ret.label = "strong_recommend"

\* every factor took its risk branch
C18_AllRiskReached == Scored /\ ret.rating = 2 /\ ret.risk = 12

\* C19: the label is the first match of: rating >= 8 and risk <= 2 strong
\* recommend; rating >= 6 and risk <= 3 watch; risk >= 5 strong risk; risk >= 3
\* caution; else neutral.  Rating >= 8 with risk >= 5 is strong risk, rating 6
\* or 7 with risk 3 is watch.
C19_LabelIsFirstMatch ==
    Scored =>
        /\ ret.label \in {"strong_recommend", "watch", "strong_risk", "caution", "neutral"}
        /\ ret.label = "strong_recommend" <=> (ret.rating >= 8 /\ ret.risk <= 2)
        /\ ret.label = "watch" <=>
              (~(ret.rating >= 8 /\ ret.risk <= 2) /\ ret.rating >= 6 /\ ret.risk <= 3)
        /\ ret.label = "strong_risk" <=> ((ret.rating < 6 \/ ret.risk > 3) /\ ret.risk >= 5)
        /\ ret.label = "caution" <=>
              ((ret.rating < 6 \/ ret.risk > 3) /\ ret.risk >= 3 /\ ret.risk < 5)
        /\ (ret.rating >= 8 /\ ret.risk >= 5) => ret.label = "strong_risk"
        /\ (ret.rating \in {6, 7} /\ ret.risk = 3) => ret.label = "watch"

\* rating 6 or 7 with risk exactly 3 was labelled
C19_Witness == Scored /\ ret.rating \in {6, 7} /\ ret.risk = 3 /\ ret.label = "watch"

\* rating >= 8 with risk >= 5 was labelled
C19_StrongRiskReached ==
    Scored /\ ret.rating >= 8 /\ ret.risk >= 5 /\ ret.label = "strong_risk"

\* the other three labels
C19_OthersReached ==
    \/ Scored /\ ret.label = "caution" /\ ret.rating >= 8
    \/ Scored /\ ret.label = "neutral" /\ ret.rating = 5


\* analyze_market_trend ran last and returned a result
Classified == op.name = "analyze_market_trend" /\ ret # None

\* the mean of the last n closes of the index is above (below) that of the last m
MeanAbove(n, m) ==
    /\ Len(index) >= n /\ Len(index) >= m
    /\ SumInts(index, Len(index) - n + 1, Len(index)) * m
          > SumInts(index, Len(index) - m + 1, Len(index)) * n

BullishIndex == MeanAbove(5, 10) /\ MeanAbove(10, 20) /\ MeanAbove(20, 60)
BearishIndex == MeanAbove(10, 5) /\ MeanAbove(20, 10) /\ MeanAbove(60, 20)

\* MACD and its signal line today (k = 1) and yesterday (k = 2)
MacdAt(k) == ILocNeg(MacdLine(Nums(index)), k)
SignalAt(k) == ILocNeg(Ewm(MacdLine(Nums(index)), Rat(1, 5), FALSE), k)

FreshGolden == RGt(MacdAt(1), SignalAt(1)) /\ RLe(MacdAt(2), SignalAt(2))
FreshDeath == RLt(MacdAt(1), SignalAt(1)) /\ RGe(MacdAt(2), SignalAt(2))
BothAbove == RGt(MacdAt(1), Num(0)) /\ RGt(SignalAt(1), Num(0))
BothBelow == RLt(MacdAt(1), Num(0)) /\ RLt(SignalAt(1), Num(0))

\* C20: the index is put in exactly one of five categories by the first match
\* of: bullish alignment (MA5 > MA10 > MA20 > MA60) with a fresh golden cross,
\* strong-up; bullish with MACD and signal above zero, mild-up; bearish with a
\* fresh death cross, strong-down; bearish with both below zero, mild-down;
\* else consolidating.  The advice is a function of the category alone.
C20_TrendIsFirstMatch ==
    Classified =>
        /\ ret[1].trend \in {"strong_up", "mild_up", "strong_down", "mild_down", "consolidating"}
        /\ ret[1].trend = "strong_up" <=> (BullishIndex /\ FreshGolden)
        /\ ret[1].trend = "mild_up" <=> (BullishIndex /\ ~FreshGolden /\ BothAbove)
        /\ ret[1].trend = "strong_down" <=> (BearishIndex /\ FreshDeath)
        /\ ret[1].trend = "mild_down" <=> (BearishIndex /\ ~FreshDeath /\ BothBelow)
        /\ ret[1].advice =
              (CASE ret[1].trend = "strong_up" -> "go_long"
                 [] ret[1].trend = "mild_up" -> "buy_dips"
                 [] ret[1].trend = "strong_down" -> "clear_out"
                 [] ret[1].trend = "mild_down" -> "stay_light"
                 [] OTHER -> "wait")

\* bullish alignment with a fresh golden cross above zero: strong-up, not mild-up
C20_Witness ==
    /\ Classified
    /\ BullishIndex /\ FreshGolden /\ BothAbove
    /\ ret[1].trend = "strong_up" /\ ret[1].advice = "go_long"

C20_MildUpReached == Classified /\ ret[1].trend = "mild_up"
C20_StrongDownReached == Classified /\ ret[1].trend = "strong_down"
C20_MildDownReached == Classified /\ ret[1].trend = "mild_down"

\* a fresh golden cross without the alignment: consolidating
C20_ConsolidatingReached ==
    Classified /\ FreshGolden /\ ~BullishIndex /\ ret[1].trend = "consolidating"


----------------------------------------------------------------------------
(* convert_flow_value: claim C22, specification SpecConvert *)

Converted == op.name = "convert_flow_value"
ConvertedText == Converted /\ op.value.kind = "str"

\* the text after the whitespace around it and the separators in it are gone,
\* and the same without a leading '-'
Bare(t) == Without(Strip(t), ",")
Signed(t) == Bare(t) # <<>> /\ Bare(t)[1] = "-"
Magnitude(t) == IF Signed(t) THEN Tail(Bare(t)) ELSE Bare(t)

\* b is a plain number: digits, at most one point, at least one digit
PlainNumber(b) ==
    /\ b # <<>>
    /\ \A i \in 1..Len(b) : IsDigit(b[i]) \/ b[i] = "."
    /\ Cardinality({i \in 1..Len(b) : b[i] = "."}) <= 1
    /\ \E i \in 1..Len(b) : IsDigit(b[i])

\* the value of a plain number
PlainValue(b) ==
    LET digits == Without(b, ".")
        places == Cardinality({i \in 1..Len(b) : \E j \in 1..i - 1 : b[j] = "."})
    IN Rat(DigitsValue(digits), Pow10(places))

Front(m) == SubSeq(m, 1, Len(m) - 1)

\* the magnitude is a number with the suffix 亿, with the suffix 万, or alone
SuffixYi(m) == m # <<>> /\ m[Len(m)] = Yi /\ PlainNumber(Front(m))
SuffixWan(m) == m # <<>> /\ m[Len(m)] = Wan /\ PlainNumber(Front(m))

\* what the claim states for a text of one of the three shapes
StatedMagnitude(m) ==
    IF SuffixYi(m) THEN RMul(PlainValue(Front(m)), Num(100000000))
    ELSE IF SuffixWan(m) THEN RMul(PlainValue(Front(m)), Num(10000))
    ELSE PlainValue(m)

StatedFlow(t) ==
    IF Signed(t) THEN RNeg(StatedMagnitude(Magnitude(t))) ELSE StatedMagnitude(Magnitude(t))

Shaped(t) == SuffixYi(Magnitude(t)) \/ SuffixWan(Magnitude(t)) \/ PlainNumber(Magnitude(t))

\* no number can be read from the text at all: once the padding, the separators,
\* the signs and the unit characters are gone, what is left is not a plain number
Unreadable(t) ==
    ~PlainNumber(Without(Without(Without(Without(Without(Bare(t), "-"), "+"), Yi), Wan), " "))

\* C22: convert_flow_value strips separators and surrounding whitespace, takes a
\* leading '-' off and puts it back on the result, multiplies the number before a
\* suffix 亿 by 1e8 and before a suffix 万 by 1e4, takes a number without suffix
\* as it is, and gives 0 for a text no number can be read from; "1.5亿" gives
\* 1.5e8, "-2000万" gives -2e7, "abc" gives 0, and '-' in front of an unsigned
\* text negates the result.
C22_ParsesMagnitudeAndSign ==
    ConvertedText =>
        /\ Shaped(op.value.text) => ret = StatedFlow(op.value.text)
        /\ Unreadable(op.value.text) => ret = Num(0)
        /\ op.value.text = ExampleYi => ret = Num(150000000)
        /\ op.value.text = ExampleWan => ret = Num(-20000000)
        /\ op.value.text = ExampleAbc => ret = Num(0)
        /\ ~Signed(op.value.text) =>
              convert_flow_value(StrValue(<<"-">> \o op.value.text)) = RNeg(ret)

\* a negative amount in 亿 with padding and a separator was converted
C22_Witness ==
    /\ ConvertedText
    /\ op.value.text = <<" ", "-", "1", ",", "5", ".", "5", Yi>>
    /\ ret = Num(-1550000000)

C22_ExamplesReached ==
    /\ ConvertedText
    /\ op.value.text = ExampleWan
    /\ ret = Num(-20000000)

C22_UnreadableReached ==
    /\ ConvertedText
    /\ op.value.text = <<"-", Wan>>
    /\ Unreadable(op.value.text)
    /\ ret = Num(0)

\* an unsigned readable text whose negation was compared
C22_NegationReached ==
    /\ ConvertedText
    /\ op.value.text = <<" ", "2", "0", ".", "5", Wan>>
    /\ ret = Num(205000)


----------------------------------------------------------------------------
(* Sector analysis: claims C21 and C30, specification SpecSectors *)

\* analyze_market_trend returned its dict and the sector fetches answered
SectorsListed == op.name = "analyze_market_trend" /\ ret # None /\ op.sectors = "ok"

Strong == ret[1].strong
Potential == ret[1].potential

Listed(list, name) == \E k \in 1..Len(list) : list[k].name = name

\* the board of that name
Board(name) == sectors[CHOOSE i \in 1..Len(sectors) : sectors[i].name = name]

\* the board has constituents and a fund-flow row
HasData(sec) == sec.cons # None /\ sec.cons[1] # <<>> /\ sec.row # None

\* the mean 涨跌幅 of the constituents
MeanChange(sec) == MeanSkipNa(sec.cons[1])

\* the net inflow parsed from the row: the first field that does not parse to 0
Inflow(sec) ==
    LET cells == sec.row[1]
        nonzero == {i \in 1..Len(cells) : convert_flow_value(cells[i]) # Num(0)}
    IN IF nonzero = {} THEN Num(0)
       ELSE convert_flow_value(cells[CHOOSE i \in nonzero : \A j \in nonzero : i <= j])

StrongAsStated(sec) ==
    HasData(sec) /\ RGt(MeanChange(sec), Num(2)) /\ RGt(Inflow(sec), Num(0))

PotentialAsStated(sec) ==
    HasData(sec) /\ RLt(MeanChange(sec), Num(2)) /\ RGt(Inflow(sec), Num(50000000))

\* the lists hold exactly the boards the two rules name
ListsAsStated ==
    \A i \in 1..Len(sectors) :
        /\ Listed(Strong, sectors[i].name) <=> StrongAsStated(sectors[i])
        /\ Listed(Potential, sectors[i].name) <=> PotentialAsStated(sectors[i])

\* the potential list is in descending order of the raw inflow
PotentialByInflow ==
    \A k \in 1..Len(Potential) - 1 :
        /\ Potential[k].flow = Inflow(Board(Potential[k].name))
        /\ RGe(Potential[k].flow, Potential[k + 1].flow)

\* the strong list is in descending order of the mean change
StrongByMeanChange ==
    \A k \in 1..Len(Strong) - 1 :
        RGe(MeanChange(Board(Strong[k].name)), MeanChange(Board(Strong[k + 1].name)))

\* the strong list is in descending order of the change as it is printed
StrongByPrintedChange ==
    \A k \in 1..Len(Strong) - 1 : RGe(Strong[k].change, Strong[k + 1].change)

\* what holds of the lists whenever they are returned
SectorListsHold ==
    SectorsListed => ListsAsStated /\ PotentialByInflow /\ StrongByPrintedChange

\* C21: a sector is listed as strong iff its mean change is > 2 and its parsed
\* inflow is > 0, as potential iff its mean change is < 2 and its inflow is
\* > 5e7; the strong list is sorted in descending order of mean change and the
\* potential list in descending order of the raw inflow.
C21_ListsAndTheirOrder ==
    SectorsListed => ListsAsStated /\ PotentialByInflow /\ StrongByMeanChange

\* two strong boards whose means 2.5025 and 2.50333... are both printed 2.50
C21_PrintedTieReached ==
    /\ SectorsListed
    /\ Len(Strong) = 2
    /\ Strong[1].change = Strong[2].change
    /\ RLt(MeanChange(Board(Strong[1].name)), MeanChange(Board(Strong[2].name)))

\* C30: the strong and the potential list share no sector; a sector whose mean
\* change is exactly 2 is in neither list whatever its inflow, and so is a sector
\* without a fund-flow row.
C30_ListsAreDisjoint ==
    SectorsListed =>
        \A i \in 1..Len(sectors) :
            /\ ~(Listed(Strong, sectors[i].name) /\ Listed(Potential, sectors[i].name))
            /\ (sectors[i].cons # None /\ sectors[i].cons[1] # <<>>
                   /\ MeanChange(sectors[i]) = Num(2))
                  => ~Listed(Strong, sectors[i].name) /\ ~Listed(Potential, sectors[i].name)
            /\ sectors[i].row = None
                  => ~Listed(Strong, sectors[i].name) /\ ~Listed(Potential, sectors[i].name)

\* a board at exactly 2 with an inflow of 6e7 beside a strong and a potential one
C30_Witness ==
    /\ SectorsListed
    /\ Len(sectors) = 2
    /\ sectors[1].cons # None /\ sectors[1].cons[1] # <<>>
    /\ MeanChange(sectors[1]) = Num(2)
    /\ sectors[1].row = Some(<<NumValue(Num(60000000))>>)
    /\ Len(Strong) = 1 /\ Strong[1].name = "B"
    /\ Potential = <<>>

C30_BothListsReached ==
    /\ SectorsListed
    /\ Len(Strong) = 1 /\ Len(Potential) = 1
    /\ Strong[1].name # Potential[1].name

C30_NoRowReached ==
    /\ SectorsListed
    /\ Len(sectors) = 1
    /\ sectors[1].row = None
    /\ sectors[1].cons = Some(<<Pct(250), Pct(350)>>)
    /\ Strong = <<>> /\ Potential = <<>>


----------------------------------------------------------------------------
(* analyze_money_flow: claim C23, specification SpecFlow *)

Bucketed == op.name = "analyze_money_flow" /\ ret # None

Tier5000w == ret[1].stock_flows_5000w
Tier1000w == ret[1].stock_flows_1000w
Tier100w == ret[1].stock_flows_100w

\* the positions of the tier that hold the code
PlacesIn(tier, code) == {k \in 1..Len(tier) : tier[k].code = code}

\* a cell a number can be read from: a number, or a text of the shapes of C22
Readable(cell) == cell.kind = "num" \/ (cell.kind = "str" /\ Shaped(cell.text))

\* the main net inflow of the row: its first readable cell, 0 without one
MainNetInflow(row) ==
    LET readable == {i \in 1..Len(row.cells) : Readable(row.cells[i])}
        first    == CHOOSE i \in readable : \A j \in readable : i <= j
    IN IF readable = {} THEN Num(0)
       ELSE IF row.cells[first].kind = "num" THEN row.cells[first].num
       ELSE StatedFlow(row.cells[first].text)

AtLeast(row, threshold) == RGe(RAbs(MainNetInflow(row)), Num(threshold))

SortedBySize(tier) ==
    \A k \in 1..Len(tier) - 1 : RGe(RAbs(tier[k].flow), RAbs(tier[k + 1].flow))

\* C23: every entry is in at most one tier, chosen by the absolute value of its
\* main net inflow against 5e7, 1e7 and 1e6 in descending order; negative flows
\* are bucketed by magnitude, and each tier is sorted in descending order of
\* |flow|.
C23_OneTierByMagnitude ==
    Bucketed =>
        /\ \A i \in 1..Len(stock_flow) :
              LET row == stock_flow[i]
                  n5  == Cardinality(PlacesIn(Tier5000w, row.code))
                  n1  == Cardinality(PlacesIn(Tier1000w, row.code))
                  n0  == Cardinality(PlacesIn(Tier100w, row.code))
              IN IF row.code = "" THEN n5 + n1 + n0 = 0
                 ELSE /\ n5 + n1 + n0 <= 1
                      /\ n5 = 1 <=> AtLeast(row, 50000000)
                      /\ n1 = 1 <=> ~AtLeast(row, 50000000) /\ AtLeast(row, 10000000)
                      /\ n0 = 1 <=> ~AtLeast(row, 10000000) /\ AtLeast(row, 1000000)
                      /\ \A tier \in {Tier5000w, Tier1000w, Tier100w} :
                            \A k \in PlacesIn(tier, row.code) :
                                tier[k].flow = MainNetInflow(row)
        /\ SortedBySize(Tier5000w) /\ SortedBySize(Tier1000w) /\ SortedBySize(Tier100w)

\* the example: 6e7, 2e7 and 2e6 land in the three tiers
C23_Witness ==
    /\ Bucketed
    /\ Len(stock_flow) = 3
    /\ stock_flow[1].cells = <<NumValue(Num(60000000))>>
    /\ stock_flow[2].cells = <<NumValue(Num(20000000))>> /\ stock_flow[2].code # ""
    /\ stock_flow[3].cells = <<NumValue(Num(2000000))>>
    /\ Len(Tier5000w) = 1 /\ Tier5000w[1].code = stock_flow[1].code
    /\ Len(Tier1000w) = 1 /\ Tier1000w[1].code = stock_flow[2].code
    /\ Len(Tier100w) = 1 /\ Tier100w[1].code = stock_flow[3].code

\* the example: 5e5 lands in no tier
C23_BelowReached ==
    /\ Bucketed
    /\ Len(stock_flow) = 1
    /\ stock_flow[1].cells = <<NumValue(Num(500000))>>
    /\ Tier5000w = <<>> /\ Tier1000w = <<>> /\ Tier100w = <<>>

\* an outflow of 6e7 sorted before an inflow of exactly 5e7 that came first
C23_NegativeReached ==
    /\ Bucketed
    /\ Len(Tier5000w) = 2
    /\ Tier5000w[1].flow = Num(-60000000) /\ Tier5000w[1].code = "000002"
    /\ Tier5000w[2].flow = Num(50000000) /\ Tier5000w[2].code = "600001"

\* "-2000万" read from a text cell
C23_TextReached ==
    /\ Bucketed
    /\ Len(Tier1000w) = 1
    /\ Tier1000w[1].flow = Num(-20000000)
    /\ stock_flow[1].cells = <<StrValue(ExampleWan)>>


----------------------------------------------------------------------------
(* The scores never go below zero: claim C24, specification SpecScoring *)

\* both scores are natural numbers and none went down in the step to them
NeverDown(before, after) ==
    /\ before[1] \in Nat /\ before[2] \in Nat
    /\ after[1] \in Nat /\ after[2] \in Nat
    /\ after[1] >= before[1] /\ after[2] >= before[2]

\* the scoring of analyze_limit_up_stocks, point by point
LimitUpScoresNeverDown ==
    Scored =>
        /\ ScoresAfter(op.factors, 0) = <<0, 0>>
        /\ \A n \in 1..Len(Factors) :
              NeverDown(ScoresAfter(op.factors, n - 1), ScoresAfter(op.factors, n))
        /\ ret.rating = ScoresAfter(op.factors, Len(Factors))[1]
        /\ ret.risk = ScoresAfter(op.factors, Len(Factors))[2]
        /\ ret.rating \in Nat /\ ret.risk \in Nat

\* the scoring of analyze_trading_signals, point by point
SignalScoresNeverDown ==
    (Filtered /\ ret.filtered # None) =>
        \A k \in Indices(Out) :
            /\ SignalScoresAfter(Out[k], Signals[k].position, 0) = <<0, 0>>
            /\ \A n \in 1..4 :
                  NeverDown(SignalScoresAfter(Out[k], Signals[k].position, n - 1),
                            SignalScoresAfter(Out[k], Signals[k].position, n))
            /\ Signals[k].rating = SignalScoresAfter(Out[k], Signals[k].position, 4)[1]
            /\ Signals[k].risk = SignalScoresAfter(Out[k], Signals[k].position, 4)[2]
            /\ Signals[k].rating \in Nat /\ Signals[k].risk \in Nat

\* C24: in every result of analyze_trading_signals and in every scoring run of
\* analyze_limit_up_stocks the rating and the risk score are non-negative
\* integers at every point: they start at 0 and every factor adds a
\* non-negative amount.
C24_ScoresNeverNegative == LimitUpScoresNeverDown /\ SignalScoresNeverDown

\* a limit-up run in which only the risk score grew
C24_Witness == Scored /\ ret.rating = 0 /\ ret.risk > 0

\* a signal whose risk grew and whose rating stayed at 0
C24_SignalReached ==
    /\ Filtered /\ ret.filtered # None /\ Out # <<>>
    /\ Signals[1].rating = 0 /\ Signals[1].risk = 2

\* a signal with both scores at 0 to the end
C24_ZeroReached ==
    /\ Filtered /\ ret.filtered # None /\ Out # <<>>
    /\ Signals[1].rating = 0 /\ Signals[1].risk = 0


----------------------------------------------------------------------------
(* Moving averages: claim C25, specification SpecMa *)

Averaged == op.name = "rolling_mean"

\* the closes of the n bars that end at the 0-based index k
RECURSIVE TrailingSum(_, _, _)
TrailingSum(c, k, n) == IF n = 0 THEN 0 ELSE c[k + 1] + TrailingSum(c, k - 1, n - 1)

\* C25: the moving average of window n over a series of length L has length L,
\* is undefined at every index < n-1 and defined at every index >= n-1, where it
\* is the arithmetic mean of the trailing n closes; a series shorter than n gives
\* only undefined entries, and nothing fails.
C25_DefinedFromIndexNMinus1 ==
    Averaged =>
        /\ Len(ret) = Len(op.closes)
        /\ \A k \in 0..Len(op.closes) - 1 :
              /\ k < op.window - 1 => ret[k + 1].nan
              /\ k >= op.window - 1 =>
                    /\ ~ret[k + 1].nan
                    /\ ret[k + 1].num * op.window
                          = ret[k + 1].den * TrailingSum(op.closes, k, op.window)
        /\ Len(op.closes) < op.window => \A k \in 1..Len(ret) : ret[k].nan

\* the 60-bar average over 62 rising closes: first defined at index 59
C25_Witness ==
    /\ Averaged
    /\ op.window = 60 /\ Len(op.closes) = 62 /\ op.closes[1] = 11 /\ op.closes[62] = 72
    /\ ret[59].nan
    /\ ret[60] = Rat(81, 2)
    /\ ret[62] = Rat(85, 2)

\* a series one bar short of the window
C25_ShortReached ==
    /\ Averaged
    /\ op.window = 20 /\ Len(op.closes) = 19
    /\ \A k \in 1..19 : ret[k].nan

\* no bar at all
C25_EmptyReached == Averaged /\ op.closes = <<>> /\ ret = <<>>


----------------------------------------------------------------------------
(* Failed classifications: claim C26, specification Spec *)

\* the call check_ma_trend(op'.sym) of this step went to the provider and got
\* an exception or an empty history
FailedCall ==
    /\ op'.name = "check_ma_trend"
    /\ \/ op'.note = "raise"
       \/ op'.note = "miss" /\ FetchDaily(hist[op'.sym], 60) = <<>>

\* C26: every entry of ma_trend_cache has a latest bar, the last bar of the
\* non-empty history fetched when it was written; a check_ma_trend call that
\* meets an empty history or an exception returns (False, None) and leaves the
\* cache exactly as it was.
C26_FailuresAreNotCached ==
    /\ [](\A s \in DOMAIN ma_trend_cache : ma_trend_cache[s].latest # None)
    /\ [][/\ \A s \in DOMAIN ma_trend_cache' \ DOMAIN ma_trend_cache :
                /\ FetchDaily(hist[s], 60) # <<>>
                /\ ma_trend_cache'[s].latest
                      = Some(FetchDaily(hist[s], 60)[Len(FetchDaily(hist[s], 60))])
          /\ FailedCall => /\ ret' = Pair(FALSE, None)
                           /\ ma_trend_cache' = ma_trend_cache]_vars

\* a call that raised while the other symbol was cached: the cache still holds
\* that symbol alone
C26_Witness ==
    /\ op.name = "check_ma_trend" /\ op.note = "raise"
    /\ ret = Pair(FALSE, None)
    /\ DOMAIN ma_trend_cache = MainSymbols \ {op.sym}
    /\ hist[op.sym] # <<>>

\* a call that found an empty history
C26_EmptyHistoryReached ==
    /\ op.name = "check_ma_trend" /\ op.note = "miss"
    /\ hist[op.sym] = <<>>
    /\ ret = Pair(FALSE, None)
    /\ DOMAIN ma_trend_cache = MainSymbols \ {op.sym}


----------------------------------------------------------------------------
(* refresh_data and the cache: claim C27, specification Spec *)

\* refresh_data has returned
Refreshed == pc = "idle" /\ op.name = "refresh_data"

\* no call for s has gone to the provider since the cache was last cleared
NotYetClassified(s) == fetches[s] = 0

\* C27: refresh_data clears the cache before it attempts the snapshot fetch and
\* outside the try block: the cache is empty while the fetch is pending and when
\* refresh_data returns, whether the fetch succeeded or raised; the first
\* check_ma_trend of a symbol after that does not answer from the cache but
\* fetches the history and computes the pair again.
C27_RefreshEmptiesTheCache ==
    /\ [](pc = "refresh_fetch" => ma_trend_cache = EmptyCache)
    /\ [](Refreshed => ma_trend_cache = EmptyCache /\ op.note \in Outcomes)
    /\ [][/\ (pc = "refresh_fetch" /\ pc' # pc) => Refreshed'
          /\ (pc = "idle" /\ pc' = "refresh_fetch")
                => \A s \in DOMAIN ma_trend_cache : NotYetClassified(s)'
          /\ \A s \in MainSymbols :
                (op'.name = "check_ma_trend" /\ op'.sym = s /\ NotYetClassified(s))
                   => /\ op'.note # "hit"
                      /\ fetches'[s] = 1
                      /\ (op'.note = "miss" /\ FetchDaily(hist[s], 60) # <<>>)
                            => /\ computes'[s] = 1
                               /\ ret' = TrendResult(FetchDaily(hist[s], 60))
                               /\ ma_trend_cache'[s] = ret']_vars

\* refresh_data found entries, cleared them, and its snapshot fetch raised
C27_Witness ==
    /\ Refreshed
    /\ op.note = "raise" /\ op.found = "clear_entries"
    /\ ma_trend_cache = EmptyCache

\* the same with a snapshot fetch that succeeded
C27_FetchedReached ==
    /\ Refreshed
    /\ op.note = "ok" /\ op.found = "clear_entries"
    /\ ma_trend_cache = EmptyCache

\* the first call for a symbol since the clear computed its pair
C27_RecomputedReached ==
    /\ op.name = "check_ma_trend" /\ op.note = "miss"
    /\ fetches[op.sym] = 1 /\ computes[op.sym] = 1
    /\ ma_trend_cache[op.sym] = ret
    /\ ret.pos


----------------------------------------------------------------------------
(* Short histories in the technical block: claim C28, specification
   SpecTechnical *)

InOut(row) == \E j \in Indices(Out) : Out[j] = row

\* the filter ran with the MA-alignment box checked and nothing after the
\* technical block
MaAlignmentRan == FilteredNoRaise /\ TechnicalIsLast(crit) /\ crit.ma_alignment

\* C28: with the MA-alignment check enabled, a candidate whose history has
\* between 1 and 19 bars is always dropped (MA20 is undefined, so
\* MA5 > MA10 > MA20 is false), and a candidate whose history is empty
\* survives the block: less data can keep what more data drops.
C28_ShortHistoryDroppedEmptyKept ==
    MaAlignmentRan =>
        \A i \in Indices(snapshot) :
            EntersTechnical(snapshot[i], crit) =>
                /\ Len(TechHistory(snapshot[i])) \in 1..19 => ~InOut(snapshot[i])
                /\ TechHistory(snapshot[i]) = <<>> => InOut(snapshot[i])

\* one candidate with 19 bars whose MA5 is above its MA10 is dropped, the other
\* without any bar is kept
C28_Witness ==
    /\ MaAlignmentRan
    /\ \E i \in Indices(snapshot) : \E k \in Indices(snapshot) :
          /\ EntersTechnical(snapshot[i], crit) /\ EntersTechnical(snapshot[k], crit)
          /\ Len(TechHistory(snapshot[i])) = 19
          /\ RGt(ILocNeg(RollingMean(Closes(TechHistory(snapshot[i])), 5), 1),
                 ILocNeg(RollingMean(Closes(TechHistory(snapshot[i])), 10), 1))
          /\ ~InOut(snapshot[i])
          /\ TechHistory(snapshot[k]) = <<>>
          /\ InOut(snapshot[k])

\* the same candidate with one bar more passes the MA check
C28_TwentyBarsReached ==
    /\ MaAlignmentRan /\ ~crit.macd_golden /\ ~crit.kdj_golden
    /\ \E i \in Indices(snapshot) :
          /\ Len(TechHistory(snapshot[i])) = 20
          /\ InOut(snapshot[i])

\* a single bar
C28_OneBarReached ==
    /\ MaAlignmentRan
    /\ \E i \in Indices(snapshot) :
          /\ EntersTechnical(snapshot[i], crit)
          /\ Len(TechHistory(snapshot[i])) = 1
          /\ ~InOut(snapshot[i])


----------------------------------------------------------------------------
(* The reachable scores of analyze_trading_signals: claim C29, specification
   SpecSignals *)

SignalsReturned == Filtered /\ ret.filtered # None

\* C29: every row analyze_trading_signals returns has a rating in 0..6 and a
\* risk of 0 or 2; the low-position bonus and the high-position penalty never
\* meet on one row (a risk of 2 leaves the rating at 4 or less, a low position
\* leaves the risk at 0); so risk >= 3 is never true and no row is labelled
\* risk warning.
C29_RiskWarningIsNeverGiven ==
    SignalsReturned =>
        \A k \in Indices(Signals) :
            /\ Signals[k].rating \in 0..6
            /\ Signals[k].risk \in {0, 2}
            /\ Signals[k].risk = 2 => Signals[k].rating <= 4 /\ ~PositionLow(Out[k])
            /\ PositionLow(Out[k]) => Signals[k].risk = 0
            /\ ~(Signals[k].risk >= 3)
            /\ Signals[k].advice # "risk"

\* the row closest to a risk warning: no rating at all, the only risk there is;
\* it is labelled hold
C29_Witness ==
    /\ SignalsReturned /\ Out # <<>>
    /\ PositionHigh(Out[1])
    /\ Signals[1].rating = 0 /\ Signals[1].risk = 2
    /\ Signals[1].advice = "hold"

\* both ends of the rating
C29_TopRatingReached ==
    /\ SignalsReturned /\ Out # <<>>
    /\ Signals[1].rating = 6 /\ Signals[1].risk = 0

C29_NothingScoredReached ==
    /\ SignalsReturned /\ Out # <<>>
    /\ Signals[1].rating = 0 /\ Signals[1].risk = 0 /\ Signals[1].advice = "hold"

====
